---- MODULE Spec2Model ----
(***************************************************************************)
(* Model of the ec2spotmanager reconciliation engine:                      *)
(*   server/ec2spotmanager/tasks.py            (check_instance_pool etc.)  *)
(*   server/ec2spotmanager/CloudProvider/*.py  (provider interface, EC2)   *)
(*                                                                         *)
(* tasks.py calls the provider through the abstract interface of           *)
(* CloudProvider.py (same names, same arguments).  The provider is         *)
(* therefore modelled as that interface: a call either returns what the    *)
(* cloud state determines or raises a failure msg carrying msg['type'] and *)
(* msg['data'], which is how _update_pool_status reads it.  Where the EC2  *)
(* provider's body decides what is returned (request states, state codes)  *)
(* the operators follow EC2SpotCloudProvider.py.                           *)
(*                                                                         *)
(* Prices are integers (price units); a per-core price price/cores is kept *)
(* as the fraction [n |-> price, d |-> cores], compared by cross           *)
(* multiplication, so no rounding is introduced by the model.              *)
(***************************************************************************)
EXTENDS Integers, Sequences, FiniteSets, TLC

VARIABLES
    pc,          \* pc[w]: position of invocation w of check_instance_pool
    arg,         \* arg[w]: the pool_id invocation w was called with (0: none)
    lock,        \* lock[p]: holder of /tmp/ec2spotmanager.pool<p>.lck, or None
    tick,        \* tick[w]: the locals of w's body and the tables it started
                 \* from, kept until the finally; then how w's last
                 \* invocation ended, kept until w's next one starts
    db,          \* Instance table: db[k] is the row with pk k, or None
    journal,     \* PoolStatusEntry table: journal[p] rows of pool p, oldest first
    pool,        \* InstancePool table: pool[p] = [isEnabled, last_cycled, valid]
    cloud,       \* the provider's view: cloud[k] spot request k and its instance
    nextId,      \* next spot request number the provider hands out
    blacklist,   \* cache keys <provider>:blacklist:<zone>:<type> that are set
    imageCache,  \* cache keys <provider>:image:<region>:<name> that are set
    now,         \* timezone.now()
    failures,    \* provider calls that have raised so far
    selIn,       \* runs of one function on its own (selector, scale-down
                 \* selection, state words): the inputs of the run
    selOut       \* what the run returned

vars == <<pc, arg, lock, tick, db, journal, pool, cloud, nextId, blacklist,
          imageCache, now, failures, selIn, selOut>>

\* Python's None: "None" where the value is otherwise a string, Null where
\* it is otherwise a record or a tuple.
None == "None"
Null == <<>>

(***************************************************************************)
(* Bounds of the model.                                                    *)
(***************************************************************************)
MaxIds == 3       \* the provider's quota of spot requests
MaxTime == 1      \* clock values 0..MaxTime
MaxFaults == 1    \* provider calls that raise plus environment events
                  \* (rejections, interruptions, operator changes) in one
                  \* behaviour
MaxPrice == 3     \* selector runs: prices are drawn from 1..MaxPrice

Pools == {1, 2}
Workers == {"w1", "w2"}
Regions == {"r1", "r2"}
Types == {"A", "B"}

(***************************************************************************)
(* CloudProvider.py                                                        *)
(***************************************************************************)
INSTANCE_STATE == [requested |-> -1, pending |-> 0, running |-> 16,
                   shutting_down |-> 32, terminated |-> 48,
                   stopping |-> 64, stopped |-> 80]

\* POOL_STATUS_ENTRY_TYPE of models.py: the keys the status table accepts.
POOL_STATUS_ENTRY_TYPE == {"unclassified", "config-error",
                           "max-spot-instance-count-exceeded",
                           "temporary-failure", "price-too-low"}

\* get_cores_per_instance(): cores of each instance type.  The pools are
\* configured with the types A and B.
CORES_PER_INSTANCE == [A |-> 1, B |-> 2, C |-> 2, D |-> 4]

\* The zone -> region map of the cloud.
ZoneRegion == [z1 |-> "r1", z2 |-> "r2"]
Zones == DOMAIN ZoneRegion

(***************************************************************************)
(* common/prices.py get_price_median, times two so that it stays integer:  *)
(* the middle element of the sorted list, or the mean of the two middle    *)
(* ones.                                                                   *)
(***************************************************************************)
Median2(prices) ==
    LET s == SortSeq(prices, LAMBDA a, b : a < b)
        n == Len(s)
    IN  IF n % 2 = 0 THEN s[n \div 2] + s[(n \div 2) + 1]
                     ELSE 2 * s[(n + 1) \div 2]

\* get_price_median(out_prices) with out_prices = prices / cores
get_price_median(prices, cores) == [n |-> Median2(prices), d |-> 2 * cores]

\* a > b for fractions with positive denominators
FracGt(a, b) == a.n * b.d > b.n * a.d
FracMin(a, b) == IF FracGt(a, b) THEN b ELSE a

(***************************************************************************)
(* tasks.py _determine_best_location.                                      *)
(*   prices[t].cached: the cache holds the key <provider>:price:<t>;       *)
(*   prices[t].data: the decoded JSON of the key, as the sequence of its   *)
(*   (region, zone, price list) triples in the order the nested loops      *)
(*   visit them.                                                           *)
(*   acc = [best_median, best_region, best_zone, best_type, rejected]      *)
(***************************************************************************)
NoBest == [best_median |-> Null, best_region |-> None, best_zone |-> None,
           best_type |-> None, rejected_prices |-> <<>>]

\* rejected_prices[zone] = min(rejected_prices.get(zone, 9999), price)
Reject(rejected, zone, price) ==
    IF \E i \in 1..Len(rejected) : rejected[i].zone = zone
    THEN [i \in 1..Len(rejected) |->
            IF rejected[i].zone = zone
            THEN [zone |-> zone, price |-> FracMin(rejected[i].price, price)]
            ELSE rejected[i]]
    ELSE Append(rejected, [zone |-> zone,
                           price |-> FracMin([n |-> 9999, d |-> 1], price)])

\* ScanZone without the test of line 241: a zone above the ceiling is treated
\* like any other.
ScanZone_no_ceiling(acc, c, instance_type, allowed_regions, max_price, bl) ==
    LET median == get_price_median(c.prices, CORES_PER_INSTANCE[instance_type])
    IN  IF c.region \notin allowed_regions THEN acc
        ELSE IF <<c.zone, instance_type>> \in bl THEN acc
        ELSE IF acc.best_median = Null \/ FracGt(acc.best_median, median)
             THEN [acc EXCEPT !.best_median = median, !.best_region = c.region,
                              !.best_zone = c.zone, !.best_type = instance_type]
        ELSE acc

\* ScanZone without the test of lines 237-240: a blacklisted (zone, type) is
\* treated like any other.
ScanZone_no_blacklist(acc, c, instance_type, allowed_regions, max_price, bl) ==
    LET cores == CORES_PER_INSTANCE[instance_type]
        newest == [n |-> c.prices[1], d |-> cores]
        median == get_price_median(c.prices, cores)
    IN  IF c.region \notin allowed_regions THEN acc
        ELSE IF FracGt(newest, [n |-> max_price, d |-> 1])
             THEN [acc EXCEPT !.rejected_prices = Reject(@, c.zone, newest)]
        ELSE IF acc.best_median = Null \/ FracGt(acc.best_median, median)
             THEN [acc EXCEPT !.best_median = median, !.best_region = c.region,
                              !.best_zone = c.zone, !.best_type = instance_type]
        ELSE acc

\* One pass of the body of "for zone in data[region]" (lines 236-253).
ScanZone(acc, c, instance_type, allowed_regions, max_price, bl) ==
    LET cores == CORES_PER_INSTANCE[instance_type]
        newest == [n |-> c.prices[1], d |-> cores]
        median == get_price_median(c.prices, cores)
    IN  IF c.region \notin allowed_regions THEN acc
        ELSE IF <<c.zone, instance_type>> \in bl THEN acc
        ELSE IF FracGt(newest, [n |-> max_price, d |-> 1])
             THEN [acc EXCEPT !.rejected_prices = Reject(@, c.zone, newest)]
        ELSE IF acc.best_median = Null \/ FracGt(acc.best_median, median)
             THEN [acc EXCEPT !.best_median = median, !.best_region = c.region,
                              !.best_zone = c.zone, !.best_type = instance_type]
        ELSE acc

RECURSIVE ScanData(_, _, _, _, _, _, _)
ScanData(acc, data, i, instance_type, allowed_regions, max_price, bl) ==
    IF i > Len(data) THEN acc
    ELSE ScanData(ScanZone(acc, data[i], instance_type, allowed_regions,
                           max_price, bl),
                  data, i + 1, instance_type, allowed_regions, max_price, bl)

\* The loop "for instance_type in instance_types" (lines 226-254).  A type
\* without data is skipped by "continue"; the "return" of line 254 stands
\* inside the loop, so the first type that has price data ends the function;
\* when the loop ends without reaching it the function returns None (Null).
RECURSIVE ScanTypes(_, _, _, _, _, _, _)
ScanTypes(acc, instance_types, i, prices, allowed_regions, max_price, bl) ==
    IF i > Len(instance_types) THEN Null
    ELSE IF ~prices[instance_types[i]].cached
         THEN ScanTypes(acc, instance_types, i + 1, prices, allowed_regions,
                        max_price, bl)
    ELSE ScanData(acc, prices[instance_types[i]].data, 1, instance_types[i],
                  allowed_regions, max_price, bl)

_determine_best_location(max_price, regions, instance_types, prices, bl) ==
    ScanTypes(NoBest, instance_types, 1, prices, regions, max_price, bl)

(***************************************************************************)
(* EC2SpotCloudProvider._determine_best_price (lines 345-376): the same    *)
(* scan, over every key of the prices dict that is a configured type; keys *)
(* is the order in which the dict yields them.  It always returns the      *)
(* tuple.                                                                  *)
(***************************************************************************)
RECURSIVE ScanKeys(_, _, _, _, _, _, _, _)
ScanKeys(acc, keys, i, instance_types, prices, allowed_regions, max_price, bl) ==
    IF i > Len(keys) THEN acc
    ELSE IF ~prices[keys[i]].cached
            \/ ~\E j \in 1..Len(instance_types) : instance_types[j] = keys[i]
         THEN ScanKeys(acc, keys, i + 1, instance_types, prices,
                       allowed_regions, max_price, bl)
    ELSE ScanKeys(ScanData(acc, prices[keys[i]].data, 1, keys[i],
                           allowed_regions, max_price, bl),
                  keys, i + 1, instance_types, prices, allowed_regions,
                  max_price, bl)

_determine_best_price(max_price, regions, instance_types, prices, bl, keys) ==
    ScanKeys(NoBest, keys, 1, instance_types, prices, regions, max_price, bl)

(***************************************************************************)
(* Data shapes.                                                            *)
(*   cloud[k] = [req, state, tagged, updatable, pool, region, zone, type]  *)
(*     req: "none" (not handed out), "open", "fulfilled", "cancelled",     *)
(*          "failed"; state: the instance's state word once fulfilled      *)
(*          (-1 before); last_cycled is Null or <<time>>;                  *)
(*     tagged: the pool's tags (SpotManager-PoolId) are on the instance;   *)
(*     updatable: the SpotManager-Updatable=1 tag is on the instance.      *)
(*   db[k] = [instance_id, pool, region, zone, status_code, size, hostname]*)
(*     instance_id is <<"sir", k>> (the spot request id) until the request *)
(*     is seen fulfilled, then <<"i", k>> (the cloud instance id).         *)
(*   a status entry = [type, isCritical]                                   *)
(***************************************************************************)
\* pk 0 is the row that exists before the first tick; the provider hands
\* out 1..MaxIds.
Ids == 0..MaxIds

NoReq == [req |-> "none", state |-> -1, tagged |-> FALSE, updatable |-> FALSE,
          pool |-> 0, region |-> None, zone |-> None, type |-> None]

ReqId(k) == <<"sir", k>>
InstId(k) == <<"i", k>>

\* Ascending sequence of a finite set of integers (a queryset in pk order).
RECURSIVE SeqOf(_)
SeqOf(S) ==
    IF S = {} THEN <<>>
    ELSE LET m == CHOOSE x \in S : \A y \in S : x <= y
         IN  <<m>> \o SeqOf(S \ {m})

\* Instance.objects.filter(pool=pool): the pks of the pool's rows.
RowsOf(d, p) == {k \in DOMAIN d : d[k] # Null /\ d[k].pool = p}

(***************************************************************************)
(* tasks.py _update_pool_status(pool, msg): one more row of the status     *)
(* table, type msg['type'], isCritical = True whatever the type.           *)
(* A msg['type'] that is no key of POOL_STATUS_ENTRY_TYPE raises KeyError: *)
(* the operator then yields Null and the caller models the raise.          *)
(***************************************************************************)
_update_pool_status(entries, msgtype) ==
    IF msgtype \in POOL_STATUS_ENTRY_TYPE
    THEN Append(entries, [type |-> msgtype, isCritical |-> TRUE])
    ELSE Null

(***************************************************************************)
(* EC2SpotCloudProvider.check_instances_requests (lines 153-208), called   *)
(* as the interface declares it (region, instances, tags).  The loop over  *)
(* zip(instances, results): a fulfilled request is reported with its       *)
(* instance id, host name and state_code & 255, and the instance gets the  *)
(* Updatable tag; cancelled/closed gives action blacklist; open/active     *)
(* gives nothing; failed gives action disable_pool and breaks the loop.    *)
(* cluster.check_spot_requests(instances, tags) has put the pool's tags on *)
(* every fulfilled instance of the batch before the loop runs.             *)
(***************************************************************************)
\* The loop reporting a request that is still open or active like a
\* cancelled one (action blacklist).
RECURSIVE ReqLoop_open_blacklisted(_, _, _)
ReqLoop_open_blacklisted(requested, i, acc) ==
    IF i > Len(requested) THEN acc
    ELSE LET k == requested[i]
             c == acc.cloud[k]
         IN  CASE c.req = "fulfilled" ->
                    ReqLoop_open_blacklisted(requested, i + 1,
                        [acc EXCEPT
                           !.successful = Append(@,
                               [req_id |-> k, hostname |-> <<"dns", k>>,
                                instance_id |-> InstId(k),
                                status_code |-> c.state % 256]),
                           !.cloud[k].updatable = TRUE])
               [] c.req \in {"cancelled", "closed", "open", "active"} ->
                    ReqLoop_open_blacklisted(requested, i + 1,
                        [acc EXCEPT
                           !.failed = Append(@,
                               [req_id |-> k, action |-> "blacklist",
                                instance_type |-> c.type])])
               [] OTHER ->
                    [acc EXCEPT
                       !.failed = Append(@,
                           [req_id |-> k, action |-> "disable_pool",
                            instance_type |-> None])]

RECURSIVE ReqLoop(_, _, _)
ReqLoop(requested, i, acc) ==
    IF i > Len(requested) THEN acc
    ELSE LET k == requested[i]
             c == acc.cloud[k]
         IN  CASE c.req = "fulfilled" ->
                    ReqLoop(requested, i + 1,
                        [acc EXCEPT
                           !.successful = Append(@,
                               [req_id |-> k, hostname |-> <<"dns", k>>,
                                instance_id |-> InstId(k),
                                status_code |-> c.state % 256]),
                           !.cloud[k].updatable = TRUE])
               [] c.req \in {"cancelled", "closed"} ->
                    ReqLoop(requested, i + 1,
                        [acc EXCEPT
                           !.failed = Append(@,
                               [req_id |-> k, action |-> "blacklist",
                                instance_type |-> c.type])])
               [] c.req \in {"open", "active"} ->
                    ReqLoop(requested, i + 1, acc)
               [] OTHER ->
                    [acc EXCEPT
                       !.failed = Append(@,
                           [req_id |-> k, action |-> "disable_pool",
                            instance_type |-> None])]

check_instances_requests(region, requested, cl) ==
    LET tagged == [k \in DOMAIN cl |->
                     IF (\E i \in 1..Len(requested) : requested[i] = k)
                        /\ cl[k].req = "fulfilled"
                     THEN [cl[k] EXCEPT !.tagged = TRUE] ELSE cl[k]]
    IN  ReqLoop(requested, 1,
                [successful |-> <<>>, failed |-> <<>>, cloud |-> tagged])

(***************************************************************************)
(* EC2SpotCloudProvider.check_instances_state (lines 210-228): every       *)
(* instance carrying the pool's tag in the region whose state_code is not  *)
(* shutting-down or terminated, with status = state_code & 255.            *)
(***************************************************************************)
check_instances_state(pool_id, region, cl) ==
    LET found == {k \in DOMAIN cl :
                     /\ cl[k].req = "fulfilled" /\ cl[k].tagged
                     /\ cl[k].pool = pool_id /\ cl[k].region = region
                     /\ cl[k].state \notin {INSTANCE_STATE.shutting_down,
                                            INSTANCE_STATE.terminated}}
        ks == SeqOf(found)
    IN  [i \in 1..Len(ks) |->
            [id |-> InstId(ks[i]), status |-> cl[ks[i]].state % 256,
             updatable |-> cl[ks[i]].updatable]]

(***************************************************************************)
(* The provider failure of one tick: at most one provider call of the tick *)
(* raises.  call names the call ("none": no call raises), region the       *)
(* region it is made for, type the msg['type'] of what is raised.          *)
(***************************************************************************)
FailTypes == {"unclassified", "temporary-failure",
              "max-spot-instance-count-exceeded"}

\* The exception a provider raises carries its category and text.  What
\* tasks.py does with it depends on its class, which the interface of
\* CloudProvider.py leaves open: "mapping" is an exception that answers
\* msg['type'] and msg['data'], "exception" is the built-in
\* Exception({"type": ..., "data": ...}) of EC2SpotCloudProvider, on which
\* msg['type'] raises TypeError.
Payloads == {"mapping", "exception"}

NoFail == [call |-> "none", region |-> None, type |-> None, payload |-> None]

\* What each call raises follows the EC2 provider: connect failures of
\* check_instances_requests, check_instances_state and terminate_instances
\* are unclassified, get_image raises temporary-failure; start_instances
\* raises any of the three categories a provider can assign (what the EC2
\* method makes of them is start_instances_raises, further down);
\* _setup_userdata raises unclassified.
Failures ==
    [call : {"none"}, region : {None}, type : {None}, payload : Payloads]
    \cup [call : {"requests", "state"}, region : Regions,
          type : {"unclassified"}, payload : Payloads]
    \cup [call : {"terminate"}, region : {None}, type : {"unclassified"},
          payload : Payloads]
    \cup [call : {"image"}, region : {None}, type : {"temporary-failure"},
          payload : Payloads]
    \cup [call : {"start"}, region : {None}, type : FailTypes,
          payload : Payloads]
    \cup [call : {"userdata"}, region : {None}, type : {"unclassified"},
          payload : Payloads]

\* "except Exception as msg: _update_pool_status(pool, msg)" (lines 195-196
\* and 263-264) for a provider exception of category type: the status row
\* is saved when the exception answers msg['type']; on the built-in
\* Exception line 288 raises TypeError, which leaves the handler.
ExceptHandler(W, fail, type) ==
    IF fail.payload = "mapping"
    THEN [W EXCEPT !.entries = _update_pool_status(@, type)]
    ELSE [W EXCEPT !.raised = TRUE]

(***************************************************************************)
(* tasks.py _update_pool_instances (lines 295-451).                        *)
(*   L = [db, cloud, bl, entries, created, left, ids, failed] are the      *)
(*   tables and the function's locals: entries the pool's status rows,     *)
(*   created instances_created, left the pks in instances_left, ids[r] the *)
(*   ids in instance_ids_by_region[r]; failed: the tick's provider failure *)
(*   has been raised.  instances_by_ids[x] is the row whose pk is x[2].    *)
(***************************************************************************)
\* The "except Exception as msg" of lines 416-417.
RegionExcept(L) ==
    [L EXCEPT !.entries = _update_pool_status(@, "unclassified")]

\* Lines 337-348 without line 340: the row keeps the spot request id.
RECURSIVE ApplySuccessful_keeps_request_id(_, _, _, _)
ApplySuccessful_keeps_request_id(L, successful, i, region) ==
    IF i > Len(successful) THEN L
    ELSE LET s == successful[i]
             k == s.req_id
         IN  ApplySuccessful_keeps_request_id(
                 [L EXCEPT !.db[k].hostname = s.hostname,
                           !.db[k].status_code = s.status_code,
                           !.ids[region] = @ \cup {s.instance_id},
                           !.created = TRUE],
                 successful, i + 1, region)

\* Lines 337-348: the fulfilled requests.
RECURSIVE ApplySuccessful(_, _, _, _)
ApplySuccessful(L, successful, i, region) ==
    IF i > Len(successful) THEN L
    ELSE LET s == successful[i]
             k == s.req_id
         IN  ApplySuccessful(
                 [L EXCEPT !.db[k].hostname = s.hostname,
                           !.db[k].instance_id = s.instance_id,
                           !.db[k].status_code = s.status_code,
                           !.ids[region] = @ \cup {s.instance_id},
                           !.created = TRUE],
                 successful, i + 1, region)

\* Lines 350-361 without lines 355-358: the row is deleted and no key is
\* set.
RECURSIVE ApplyFailed_no_key(_, _, _)
ApplyFailed_no_key(L, failed, i) ==
    IF i > Len(failed) THEN [L |-> L, raised |-> FALSE]
    ELSE LET f == failed[i]
             k == f.req_id
         IN  IF f.action = "blacklist"
             THEN ApplyFailed_no_key([L EXCEPT !.db[k] = Null], failed, i + 1)
             ELSE IF f.action = "disable_pool"
             THEN LET e == _update_pool_status(L.entries, "unclassifed")
                  IN  IF e = Null THEN [L |-> L, raised |-> TRUE]
                      ELSE ApplyFailed_no_key([L EXCEPT !.entries = e], failed,
                                              i + 1)
             ELSE ApplyFailed_no_key(L, failed, i + 1)

\* Lines 350-359 without the elif of lines 360-361: action disable_pool is
\* passed over.
RECURSIVE ApplyFailed_ignores_disable_pool(_, _, _)
ApplyFailed_ignores_disable_pool(L, failed, i) ==
    IF i > Len(failed) THEN [L |-> L, raised |-> FALSE]
    ELSE LET f == failed[i]
             k == f.req_id
         IN  IF f.action = "blacklist"
             THEN ApplyFailed_ignores_disable_pool(
                      [L EXCEPT !.bl = @ \cup {<<L.db[k].zone, f.instance_type>>},
                                !.db[k] = Null],
                      failed, i + 1)
             ELSE ApplyFailed_ignores_disable_pool(L, failed, i + 1)

\* Lines 350-361: the failed requests.  The type 'unclassifed' of line 361 is
\* looked up in POOL_STATUS_ENTRY_TYPE by _update_pool_status.
RECURSIVE ApplyFailed(_, _, _)
ApplyFailed(L, failed, i) ==
    IF i > Len(failed) THEN [L |-> L, raised |-> FALSE]
    ELSE LET f == failed[i]
             k == f.req_id
         IN  IF f.action = "blacklist"
             THEN ApplyFailed(
                      [L EXCEPT !.bl = @ \cup {<<L.db[k].zone, f.instance_type>>},
                                !.db[k] = Null],
                      failed, i + 1)
             ELSE IF f.action = "disable_pool"
             THEN LET e == _update_pool_status(L.entries, "unclassifed")
                  IN  IF e = Null THEN [L |-> L, raised |-> TRUE]
                      ELSE ApplyFailed([L EXCEPT !.entries = e], failed, i + 1)
             ELSE ApplyFailed(L, failed, i + 1)

\* Lines 364-414: the loop over the instances the provider reports.
RECURSIVE CloudLoop(_, _, _, _)
CloudLoop(L, cis, i, region) ==
    IF i > Len(cis) THEN [L |-> L, raised |-> FALSE]
    ELSE LET ci == cis[i]
             k == ci.id[2]
             known == ci.id \in L.ids[region]
         IN  IF ~ci.updatable
             THEN IF known
                  THEN IF k \in L.left           \* instances_left.remove(...)
                       THEN CloudLoop([L EXCEPT !.left = @ \ {k}], cis, i + 1,
                                      region)
                       ELSE [L |-> L, raised |-> TRUE]      \* ValueError
                  ELSE CloudLoop(L, cis, i + 1, region)
             ELSE IF ~known
             THEN IF ci.status \notin {INSTANCE_STATE.shutting_down,
                                       INSTANCE_STATE.terminated}
                  THEN IF \E j \in DOMAIN L.db :
                             L.db[j] # Null /\ L.db[j].instance_id = ci.id
                       THEN CloudLoop(L, cis, i + 1, region)
                       ELSE [L |-> L, raised |-> TRUE]      \* assert False
                  ELSE CloudLoop(L, cis, i + 1, region)
             ELSE CloudLoop(
                      [L EXCEPT !.left = @ \ {k},
                                !.db[k].status_code = ci.status],
                      cis, i + 1, region)

\* What the try of lines 325-415 leaves when a loop ended as r says: an
\* exception raised inside it is caught at line 416.
Caught(r) == IF r.raised THEN RegionExcept(r.L) ELSE r.L

\* Lines 362-414 for one region; fail is the tick's provider failure.
StatePhase(L, p, region, fail) ==
    IF fail.call = "state" /\ fail.region = region
    THEN RegionExcept([L EXCEPT !.failed = TRUE])
    ELSE Caught(CloudLoop(L, check_instances_state(p, region, L.cloud), 1,
                          region))

\* Lines 337-361: the (successful, failed) pair res of the provider applied.
ApplyResults(L, res, region) ==
    ApplyFailed(ApplySuccessful([L EXCEPT !.cloud = res.cloud],
                                res.successful, 1, region),
                res.failed, 1)

\* Lines 362-414 after the request phase ended as r says.
AfterRequests(r, p, region, fail) ==
    IF r.raised THEN RegionExcept(r.L) ELSE StatePhase(r.L, p, region, fail)

\* Lines 325-417 for one region.
RegionStep(L, p, region, fail) ==
    LET requested == SeqOf({k \in RowsOf(L.db, p) :
                               /\ L.db[k].region = region
                               /\ L.db[k].status_code = INSTANCE_STATE.requested})
    IN  IF requested = <<>> THEN StatePhase(L, p, region, fail)
        ELSE IF fail.call = "requests" /\ fail.region = region
             THEN RegionExcept([L EXCEPT !.failed = TRUE])
        ELSE AfterRequests(
                 ApplyResults(L, check_instances_requests(region, requested,
                                                          L.cloud), region),
                 p, region, fail)

\* The loop with the try around it instead of inside it: a provider call
\* that raises ends the loop.
RECURSIVE RegionLoop_try_outside(_, _, _, _, _)
RegionLoop_try_outside(L, p, regions, i, fail) ==
    IF i > Len(regions) \/ L.failed THEN L
    ELSE RegionLoop_try_outside(RegionStep(L, p, regions[i], fail), p, regions,
                                i + 1, fail)

\* Line 324: the loop over the regions of the pool's rows.
RECURSIVE RegionLoop(_, _, _, _, _)
RegionLoop(L, p, regions, i, fail) ==
    IF i > Len(regions) THEN L
    ELSE RegionLoop(RegionStep(L, p, regions[i], fail), p, regions, i + 1, fail)

\* The keys of instance_ids_by_region, in the order the rows insert them.
RECURSIVE RegionOrder(_, _, _)
RegionOrder(d, ks, i) ==
    IF i > Len(ks) THEN <<>>
    ELSE LET rest == RegionOrder(d, ks, i + 1)
             r == d[ks[i]].region
         IN  <<r>> \o SelectSeq(rest, LAMBDA x : x # r)

\* Retract without the second delete (lines 447-449): temporary-failure rows
\* stay.
Retract_max_spot_only(entries, created) ==
    IF created
    THEN SelectSeq(entries, LAMBDA e :
             e.type # "max-spot-instance-count-exceeded")
    ELSE entries

\* Lines 439-449: the status rows that stay when instances were created.
Retract(entries, created) ==
    IF created
    THEN SelectSeq(entries, LAMBDA e :
             e.type \notin {"max-spot-instance-count-exceeded",
                            "temporary-failure"})
    ELSE entries

\* Lines 419-437: the rows still in instances_left are deleted.
DeleteLeft(d, left) == [k \in DOMAIN d |-> IF k \in left THEN Null ELSE d[k]]

\* Lines 419-449: what follows the loop over the regions.
AfterRegions(L) ==
    [L EXCEPT !.db = DeleteLeft(@, L.left),
              !.entries = Retract(@, L.created)]

\* The update with line 306 reading Instance.objects.all(): the rows of
\* every pool are taken for the pool's.
_update_pool_instances_all_rows(p, d, cl, bl, entries, fail) ==
    LET rows == {k \in DOMAIN d : d[k] # Null}
        L0 == [db |-> d, cloud |-> cl, bl |-> bl, entries |-> entries,
               created |-> FALSE, failed |-> FALSE,
               left |-> {k \in rows :
                           d[k].status_code # INSTANCE_STATE.requested},
               ids |-> [r \in Regions |->
                          {d[k].instance_id : k \in {j \in rows :
                                                       d[j].region = r}}]]
    IN  AfterRegions(RegionLoop(L0, p, RegionOrder(d, SeqOf(rows), 1), 1, fail))

_update_pool_instances(p, d, cl, bl, entries, fail) ==
    LET rows == RowsOf(d, p)
        L0 == [db |-> d, cloud |-> cl, bl |-> bl, entries |-> entries,
               created |-> FALSE, failed |-> FALSE,
               left |-> {k \in rows :
                           d[k].status_code # INSTANCE_STATE.requested},
               ids |-> [r \in Regions |->
                          {d[k].instance_id : k \in {j \in rows :
                                                       d[j].region = r}}]]
    IN  AfterRegions(RegionLoop(L0, p, RegionOrder(d, SeqOf(rows), 1), 1, fail))

(***************************************************************************)
(* The pools' flattened configurations (instance_pool.config.flatten()) and *)
(* the price keys of the cache, <provider>:price:<type>.                   *)
(***************************************************************************)
PoolConfig ==
    [p \in Pools |->
        IF p = 1
        THEN [size |-> 2, cycle_interval |-> 1, instance_types |-> <<"B", "A">>,
              allowed_regions |-> {"r1", "r2"}, max_price |-> 3]
        ELSE [size |-> 1, cycle_interval |-> 0, instance_types |-> <<"A">>,
              allowed_regions |-> {"r1", "r2"}, max_price |-> 3]]

PriceCache ==
    [A |-> [cached |-> TRUE, data |->
              <<[region |-> "r1", zone |-> "z1", prices |-> <<2, 2>>],
                [region |-> "r2", zone |-> "z2", prices |-> <<3>>]>>],
     B |-> [cached |-> TRUE, data |->
              <<[region |-> "r1", zone |-> "z1", prices |-> <<4, 6>>],
                [region |-> "r2", zone |-> "z2", prices |-> <<8>>]>>]]

(***************************************************************************)
(* tasks.py _terminate_pool_instances(running_instances, instance_pool)    *)
(* (lines 257-275).  An argument is [kind |-> "rows", rows |-> pks] for a  *)
(* list of Instance rows and [kind |-> "pool", id |-> p] for an            *)
(* InstancePool.  _get_instance_ids_by_region iterates its argument before *)
(* the try: an InstancePool is not iterable and the TypeError propagates.  *)
(* terminate_instances puts the named cloud instances that are pending or  *)
(* running into shutting-down; a raise is caught and handed to             *)
(* _update_pool_status (ExceptHandler).  The provider works region by      *)
(* region, so with no row there is no region and nothing that can raise.   *)
(***************************************************************************)
_terminate_pool_instances(running_instances, instance_pool, W, fail) ==
    IF running_instances.kind # "rows"
    THEN [W EXCEPT !.raised = TRUE]
    ELSE LET ks == {k \in running_instances.rows :
                       W.db[k].instance_id = InstId(k)}
         IN  IF fail.call = "terminate" /\ running_instances.rows # {}
             THEN ExceptHandler([W EXCEPT !.termCalls = @ + 1,
                                          !.failed = TRUE], fail, fail.type)
             ELSE [W EXCEPT
                     !.cloud = [k \in DOMAIN W.cloud |->
                                  IF k \in ks /\ W.cloud[k].state \in
                                       {INSTANCE_STATE.pending,
                                        INSTANCE_STATE.running}
                                  THEN [W.cloud[k] EXCEPT
                                          !.state = INSTANCE_STATE.shutting_down]
                                  ELSE W.cloud[k]],
                     !.terminated = @ \cup running_instances.rows,
                     !.termCalls = @ + 1]

(***************************************************************************)
(* tasks.py _start_pool_instances(pool, config, count) (lines 119-196).    *)
(***************************************************************************)
\* Lines 130-145: acceptable_types or smallest.
MinCores(instance_types) ==
    CHOOSE m \in {CORES_PER_INSTANCE[instance_types[i]] :
                     i \in 1..Len(instance_types)} :
        \A i \in 1..Len(instance_types) :
            m <= CORES_PER_INSTANCE[instance_types[i]]

\* Lines 130-145 without the elif of lines 143-144: of the types with the
\* least cores only the first is kept.
Winnow_first_smallest(instance_types, count) ==
    IF instance_types = <<>> THEN <<>>
    ELSE LET acceptable_types ==
                 SelectSeq(instance_types,
                           LAMBDA t : CORES_PER_INSTANCE[t] <= count)
             smallest ==
                 SelectSeq(instance_types,
                           LAMBDA t : CORES_PER_INSTANCE[t] =
                                        MinCores(instance_types))
         IN  IF acceptable_types # <<>> THEN acceptable_types
             ELSE <<smallest[1]>>

Winnow(instance_types, count) ==
    IF instance_types = <<>> THEN <<>>
    ELSE LET acceptable_types ==
                 SelectSeq(instance_types,
                           LAMBDA t : CORES_PER_INSTANCE[t] <= count)
             smallest ==
                 SelectSeq(instance_types,
                           LAMBDA t : CORES_PER_INSTANCE[t] =
                                        MinCores(instance_types))
         IN  IF acceptable_types # <<>> THEN acceptable_types ELSE smallest

\* Lines 182-193: start_instances(..., instance_type, count) hands out count
\* spot requests; one Instance row is saved for each.
StartRequests(W, p, region, zone, instance_type, count) ==
    LET new == W.nextId..(W.nextId + count - 1)
    IN  [W EXCEPT
           !.cloud = [k \in DOMAIN W.cloud |->
                        IF k \in new
                        THEN [req |-> "open", state |-> -1, tagged |-> FALSE,
                              updatable |-> FALSE, pool |-> p,
                              region |-> region, zone |-> zone,
                              type |-> instance_type]
                        ELSE W.cloud[k]],
           !.db = [k \in DOMAIN W.db |->
                     IF k \in new
                     THEN [instance_id |-> ReqId(k), pool |-> p,
                           region |-> region, zone |-> zone,
                           status_code |-> INSTANCE_STATE.requested,
                           size |-> CORES_PER_INSTANCE[instance_type],
                           hostname |-> Null]
                     ELSE W.db[k]],
           !.nextId = @ + count,
           !.started = @ \cup new]

\* Lines 160-170 without the test of line 163: a price-too-low row is saved
\* whether or not the pool has one.
PriceTooLow_unchecked(entries) ==
    Append(entries, [type |-> "price-too-low", isCritical |-> FALSE])

\* Lines 160-170: a price-too-low row is saved unless the pool has one; the
\* row keeps the model's default isCritical = False.
PriceTooLow(entries) ==
    IF \E i \in 1..Len(entries) : entries[i].type = "price-too-low"
    THEN entries
    ELSE Append(entries, [type |-> "price-too-low", isCritical |-> FALSE])

\* Lines 173-176: image = cache.get(image_key), then image = None.
image(images, region) == None

\* Lines 178-180: with no image at hand get_image is called for the region
\* and the key is set.  W.imageCalls holds the regions get_image was called
\* for.
ResolveImage(W, region) ==
    IF image(W.images, region) = None
    THEN [W EXCEPT !.imageCalls = @ \cup {region},
                   !.images = @ \cup {region}]
    ELSE W

\* Lines 147-196, with sel what _determine_best_location returned.
StartAt(p, count, W, fail, sel) ==
        IF fail.call = "userdata"          \* _setup_userdata raises, line 147
        THEN [W EXCEPT !.raised = TRUE, !.failed = TRUE]
        ELSE IF sel = Null                 \* unpacking None, line 151; the
        THEN [W EXCEPT !.raised = TRUE]    \* handler of line 196 raises on it
        ELSE IF sel.best_region = None
        THEN [W EXCEPT !.entries = PriceTooLow(@)]
        ELSE IF fail.call = "image" /\ image(W.images, sel.best_region) = None
        THEN ExceptHandler(                \* get_image raises, line 179
                 [W EXCEPT !.imageCalls = @ \cup {sel.best_region},
                           !.failed = TRUE], fail, fail.type)
        ELSE IF fail.call = "start"        \* start_instances raises, line 182
        THEN ExceptHandler([ResolveImage(W, sel.best_region)
                               EXCEPT !.failed = TRUE], fail, fail.type)
        ELSE IF W.nextId + count - 1 > MaxIds   \* over the provider's quota
        THEN ExceptHandler(ResolveImage(W, sel.best_region),
                           fail, "max-spot-instance-count-exceeded")
        ELSE StartRequests(ResolveImage(W, sel.best_region),
                           p, sel.best_region, sel.best_zone, sel.best_type,
                           count)

_start_pool_instances(p, config, count, W, fail) ==
    StartAt(p, count, W, fail,
            _determine_best_location(config.max_price, config.allowed_regions,
                Winnow(config.instance_types, count), PriceCache, W.bl))

(***************************************************************************)
(* tasks.py check_instance_pool, the body of the try (lines 30-113).       *)
(*   W: the tables as the body leaves them, and its locals:                *)
(*   outcome  how the body ended: "critical" (line 34), "config-error"     *)
(*            (line 43), "disabled" (line 78), "done" (fell through),      *)
(*            "exception" (an exception left the body);                    *)
(*   created  instances_created of _update_pool_instances;                 *)
(*   missing  instance_cores_missing after the loop of lines 54-69;        *)
(*   started  the spot requests started; terminated the rows handed to     *)
(*   terminate_instances; termCalls the calls of terminate_instances;      *)
(*   imageCalls the regions get_image was called for;                      *)
(*   selection the rows picked by the scale-down loop.                     *)
(***************************************************************************)
\* The filter of lines 31-33 finding nothing, whatever the table holds.
criticalPoolStatusEntries_unchecked(entries) == <<>>

\* Lines 31-33: PoolStatusEntry.objects.filter(pool=..., isCritical=True).
criticalPoolStatusEntries(entries) ==
    SelectSeq(entries, LAMBDA e : e.isCritical)

\* Lines 54-69: which rows are deleted, which are kept and counted.
IsDeleted(row) ==
    row.status_code \in {INSTANCE_STATE.shutting_down, INSTANCE_STATE.terminated}

RECURSIVE SumSizes(_, _)
SumSizes(d, S) ==
    IF S = {} THEN 0
    ELSE LET k == CHOOSE x \in S : TRUE
         IN  d[k].size + SumSizes(d, S \ {k})

\* The scale-down loop without the "continue" of lines 99-102: every row is
\* taken until the selected cores reach the excess.
RECURSIVE ScaleDownLoop_no_skip(_, _, _, _, _)
ScaleDownLoop_no_skip(d, ks, i, instance_cores_missing, instances) ==
    IF i > Len(ks) THEN instances
    ELSE IF instance_cores_missing + d[ks[i]].size >= 0
    THEN instances \cup {ks[i]}
    ELSE ScaleDownLoop_no_skip(d, ks, i + 1,
                               instance_cores_missing + d[ks[i]].size,
                               instances \cup {ks[i]})

\* Lines 97-106: the scale-down loop over the rows ordered by created.
RECURSIVE ScaleDownLoop(_, _, _, _, _)
ScaleDownLoop(d, ks, i, instance_cores_missing, instances) ==
    IF i > Len(ks) THEN instances
    ELSE IF instance_cores_missing + d[ks[i]].size > 0
    THEN ScaleDownLoop(d, ks, i + 1, instance_cores_missing, instances)
    ELSE IF instance_cores_missing + d[ks[i]].size = 0
    THEN instances \cup {ks[i]}
    ELSE ScaleDownLoop(d, ks, i + 1, instance_cores_missing + d[ks[i]].size,
                       instances \cup {ks[i]})

\* The test of lines 80-81 holding at every tick.
CycleDue_always(last_cycled, cycle_interval, t) == TRUE

\* Lines 80-81: the pool needs to be cycled.
CycleDue(last_cycled, cycle_interval, t) ==
    last_cycled = Null \/ last_cycled[1] < t - cycle_interval

\* Lines 108-111: the selected rows are handed to _terminate_pool_instances,
\* as (instance_pool, instances).
ScaleDown(p, W, fail, instances) ==
    IF instances # {}
    THEN _terminate_pool_instances([kind |-> "pool", id |-> p],
                                   [kind |-> "rows", rows |-> instances],
                                   [W EXCEPT !.selection = instances], fail)
    ELSE [W EXCEPT !.selection = instances]

\* Lines 90-113.
Resize(p, config, W, fail) ==
    IF W.missing > 0
    THEN _start_pool_instances(p, config, W.missing, W, fail)
    ELSE IF W.missing < 0
    THEN ScaleDown(p, W, fail,
                   ScaleDownLoop(W.db, SeqOf(RowsOf(W.db, p)), 1, W.missing, {}))
    ELSE W

\* Lines 54-69: the rows the update left are counted; the rows in
\* shutting-down or terminated are deleted.  W.db holds the rows as
\* _update_pool_instances left them.
CountRunning(p, config, W) ==
    [W EXCEPT
       !.db = [k \in DOMAIN W.db |->
                 IF k \in RowsOf(W.db, p) /\ IsDeleted(W.db[k])
                 THEN Null ELSE W.db[k]],
       !.missing = config.size
                   - SumSizes(W.db, {k \in RowsOf(W.db, p) :
                                       ~IsDeleted(W.db[k])})]

\* Lines 84-88 and what follows: T is what _terminate_pool_instances left.
\* When an exception left it, line 86 (instance_pool.save()) is not reached
\* and last_cycled stays what it was.
AfterCycle(p, config, T, fail) ==
    IF T.raised THEN [T EXCEPT !.last_cycled = pool[p].last_cycled]
    ELSE Resize(p, config, T, fail)

\* Decide without the test of line 74: a disabled pool is treated like an
\* enabled one.
Decide_ignores_disabled(p, config, W, fail) ==
    IF CycleDue(pool[p].last_cycled, config.cycle_interval, now)
    THEN AfterCycle(p, config,
                _terminate_pool_instances(
                    [kind |-> "rows", rows |-> RowsOf(W.db, p)],
                    [kind |-> "pool", id |-> p],
                    [W EXCEPT !.last_cycled = <<now>>, !.cycled = TRUE],
                    fail),
                fail)
    ELSE Resize(p, config, W, fail)

\* Lines 71-113: W.db now holds, for pool p, exactly running_instances.
Decide(p, config, W, fail) ==
    IF ~pool[p].isEnabled
    THEN IF RowsOf(W.db, p) # {}
         THEN [_terminate_pool_instances(
                   [kind |-> "rows", rows |-> RowsOf(W.db, p)],
                   [kind |-> "pool", id |-> p], W, fail)
                 EXCEPT !.outcome = "disabled"]
         ELSE [W EXCEPT !.outcome = "disabled"]
    ELSE IF CycleDue(pool[p].last_cycled, config.cycle_interval, now)
    THEN AfterCycle(p, config,
                _terminate_pool_instances(
                    [kind |-> "rows", rows |-> RowsOf(W.db, p)],
                    [kind |-> "pool", id |-> p],
                    [W EXCEPT !.last_cycled = <<now>>, !.cycled = TRUE],
                    fail),
                fail)
    ELSE Resize(p, config, W, fail)

\* Line 45: instance_pool.config.flatten(), the configuration as it is saved
\* now (the operator may have lowered max_price).
flatten(p) == [PoolConfig[p] EXCEPT !.max_price = pool[p].max_price]

\* Line 46: the tables and flags U of _update_pool_instances taken over.
Updated(W, U) ==
    [W EXCEPT !.db = U.db, !.cloud = U.cloud, !.bl = U.bl,
              !.entries = U.entries, !.created = U.created,
              !.failed = U.failed]

\* The row of lines 37-42 saved without isCritical set.
ConfigErrorEntry_not_critical ==
    [type |-> "config-error", isCritical |-> FALSE]

\* Lines 37-42: the status row saved for a cyclic or incomplete config.
ConfigErrorEntry == [type |-> "config-error", isCritical |-> TRUE]

check_instance_pool_body(p, fail) ==
    LET W0 == [db |-> db, cloud |-> cloud, bl |-> blacklist,
               images |-> imageCache, entries |-> journal[p],
               nextId |-> nextId, last_cycled |-> pool[p].last_cycled,
               outcome |-> "done", raised |-> FALSE, failed |-> FALSE,
               created |-> FALSE,
               missing |-> 0, started |-> {}, terminated |-> {},
               termCalls |-> 0, imageCalls |-> {}, selection |-> {},
               cycled |-> FALSE]
    IN  IF criticalPoolStatusEntries(journal[p]) # <<>>
        THEN [W0 EXCEPT !.outcome = "critical"]
        ELSE IF ~pool[p].valid
        THEN [W0 EXCEPT !.outcome = "config-error",
                        !.entries = Append(@, ConfigErrorEntry)]
        ELSE Decide(p, flatten(p),
                    CountRunning(p, flatten(p),
                        Updated(W0, _update_pool_instances(p, db, cloud,
                                        blacklist, journal[p], fail))),
                    fail)

(***************************************************************************)
(* The lock of lines 23-27 and 115-116: fasteners.InterProcessLock on the  *)
(* file /tmp/ec2spotmanager.pool<pool_id>.lck.                             *)
(***************************************************************************)
\* An acquire that succeeds whoever holds the file.
lock_acquire_unguarded(p) == TRUE

\* lock.acquire(blocking=False): succeeds iff nobody holds the pool's file.
lock_acquire(p) == lock[p] = None

\* A release at the end of the try body instead of in a finally: an
\* exception leaves the file held.
lock_release_unless_raised(outcome, holder) ==
    IF outcome = "exception" THEN holder ELSE None

\* finally: lock.release() (lines 115-116): the lock's holder after the body
\* ended with the given outcome.
lock_release(outcome, holder) == None

NoTick == [outcome |-> None]

\* The tables before the first tick.  Pool 1 is new: no instance, never
\* cycled, and three non-critical status rows entered by hand.  Pool 2 is at
\* its size with one running, tagged instance (pk 0, zone z2), was cycled at
\* time 0, and has one non-critical status row.
InitialJournal ==
    [p \in Pools |->
        IF p = 1
        THEN <<[type |-> "temporary-failure", isCritical |-> FALSE],
               [type |-> "price-too-low", isCritical |-> FALSE],
               [type |-> "max-spot-instance-count-exceeded",
                isCritical |-> FALSE]>>
        ELSE <<[type |-> "temporary-failure", isCritical |-> FALSE]>>]

InitialRow ==
    [instance_id |-> InstId(0), pool |-> 2, region |-> "r2", zone |-> "z2",
     status_code |-> INSTANCE_STATE.running, size |-> CORES_PER_INSTANCE["A"],
     hostname |-> <<"dns", 0>>]

InitialInstance ==
    [req |-> "fulfilled", state |-> INSTANCE_STATE.running, tagged |-> TRUE,
     updatable |-> TRUE, pool |-> 2, region |-> "r2", zone |-> "z2",
     type |-> "A"]

InitTables ==
    /\ pc = [w \in Workers |-> "idle"]
    /\ arg = [w \in Workers |-> 0]
    /\ lock = [p \in Pools |-> None]
    /\ tick = [w \in Workers |-> NoTick]
    /\ db = [k \in Ids |-> IF k = 0 THEN InitialRow ELSE Null]
    /\ journal = InitialJournal
    /\ pool = [p \in Pools |->
                 [isEnabled |-> TRUE,
                  last_cycled |-> IF p = 1 THEN Null ELSE <<0>>,
                  valid |-> TRUE, events |-> 0,
                  max_price |-> PoolConfig[p].max_price]]
    /\ cloud = [k \in Ids |-> IF k = 0 THEN InitialInstance ELSE NoReq]
    /\ nextId = 1
    /\ blacklist = {}
    /\ imageCache = {}
    /\ now = 0
    /\ failures = 0

Init ==
    /\ InitTables
    /\ selIn = Null
    /\ selOut = Null

dataVars == <<db, journal, pool, cloud, nextId, blacklist, imageCache>>
selVars == <<selIn, selOut>>

\* The environment events so far (the sum over the pools).
Events == pool[1].events + pool[2].events

\* check_instance_pool(p) starts on worker w and gets the lock (line 25):
\* the invocation enters the try.
Acquire(w, p) ==
    /\ pc[w] = "idle"
    /\ lock_acquire(p)
    /\ lock' = [lock EXCEPT ![p] = w]
    /\ pc' = [pc EXCEPT ![w] = "locked"]
    /\ arg' = [arg EXCEPT ![w] = p]
    /\ tick' = [tick EXCEPT ![w] = NoTick]
    /\ UNCHANGED <<dataVars, now, failures, selVars>>

\* check_instance_pool(p) starts on worker w and does not get the lock
\* (lines 25-27): it logs the warning and is about to return.
AcquireFails(w, p) ==
    /\ pc[w] = "idle"
    /\ ~lock_acquire(p)
    /\ pc' = [pc EXCEPT ![w] = "refused"]
    /\ arg' = [arg EXCEPT ![w] = p]
    /\ tick' = [tick EXCEPT ![w] = NoTick]
    /\ UNCHANGED <<lock, dataVars, now, failures, selVars>>

\* An invocation that, instead of returning, takes the lock once it is free.
RetryAcquire(w) ==
    /\ pc[w] = "refused"
    /\ lock_acquire(arg[w])
    /\ lock' = [lock EXCEPT ![arg[w]] = w]
    /\ pc' = [pc EXCEPT ![w] = "locked"]
    /\ UNCHANGED <<arg, tick, dataVars, now, failures, selVars>>

\* Line 27: return.
Return(w) ==
    /\ pc[w] = "refused"
    /\ pc' = [pc EXCEPT ![w] = "idle"]
    /\ arg' = [arg EXCEPT ![w] = 0]
    /\ UNCHANGED <<lock, tick, dataVars, now, failures, selVars>>

\* The tables as the body W leaves them; tick[w] keeps the body's locals,
\* the tables as the body found them and the provider failure that was
\* raised in the body (NoFail if none was).
Saved(w, p, W, fail) ==
    /\ W.failed => failures + Events < MaxFaults
    /\ failures' = IF W.failed THEN failures + 1 ELSE failures
    /\ db' = W.db
    /\ cloud' = W.cloud
    /\ blacklist' = W.bl
    /\ imageCache' = W.images
    /\ journal' = [journal EXCEPT ![p] = W.entries]
    /\ pool' = [pool EXCEPT ![p].last_cycled = W.last_cycled]
    /\ nextId' = W.nextId
    /\ tick' = [tick EXCEPT ![w] =
          [outcome |-> IF W.raised THEN "exception" ELSE W.outcome,
           created |-> W.created, missing |-> W.missing,
           started |-> W.started, terminated |-> W.terminated,
           termCalls |-> W.termCalls, imageCalls |-> W.imageCalls,
           selection |-> W.selection,
           cycled |-> W.cycled, pool |-> p,
           fault |-> IF W.failed THEN fail ELSE NoFail,
           before |-> [db |-> db, journal |-> journal, pool |-> pool,
                       cloud |-> cloud, nextId |-> nextId,
                       blacklist |-> blacklist, imageCache |-> imageCache,
                       failures |-> failures, now |-> now]]]

Body(w) ==
    /\ pc[w] = "locked"
    /\ \E fail \in Failures :
         Saved(w, arg[w], check_instance_pool_body(arg[w], fail), fail)
    /\ pc' = [pc EXCEPT ![w] = "finally"]
    /\ UNCHANGED <<arg, lock, now, selVars>>

\* Lines 115-116: finally: lock.release(); the invocation ends.
Release(w) ==
    /\ pc[w] = "finally"
    /\ lock' = [lock EXCEPT ![arg[w]] = lock_release(tick[w].outcome, @)]
    /\ pc' = [pc EXCEPT ![w] = "idle"]
    /\ arg' = [arg EXCEPT ![w] = 0]
    /\ tick' = [tick EXCEPT ![w] = [outcome |-> @.outcome, pool |-> @.pool]]
    /\ UNCHANGED <<dataVars, now, failures, selVars>>

(***************************************************************************)
(* The environment: the cloud, the operator, the clock.                    *)
(***************************************************************************)
\* The spot market fulfils an open request: the instance runs, untagged.
CloudFulfil(k) ==
    /\ cloud[k].req = "open"
    /\ cloud' = [cloud EXCEPT ![k].req = "fulfilled",
                              ![k].state = INSTANCE_STATE.running]
    /\ UNCHANGED <<pc, arg, lock, tick, db, journal, pool, nextId, blacklist,
                   imageCache, now, failures, selVars>>

\* The spot market cancels an open request, or the request fails.
CloudReject(k) ==
    /\ cloud[k].req = "open"
    /\ failures + Events < MaxFaults
    /\ \E st \in {"cancelled", "failed"} :
         cloud' = [cloud EXCEPT ![k].req = st]
    /\ pool' = [pool EXCEPT ![cloud[k].pool].events = @ + 1]
    /\ UNCHANGED <<pc, arg, lock, tick, db, journal, nextId, blacklist,
                   imageCache, now, failures, selVars>>

\* A spot interruption: a running instance is shut down by the cloud.
CloudInterrupt(k) ==
    /\ cloud[k].req = "fulfilled"
    /\ cloud[k].state = INSTANCE_STATE.running
    /\ failures + Events < MaxFaults
    /\ cloud' = [cloud EXCEPT ![k].state = INSTANCE_STATE.shutting_down]
    /\ pool' = [pool EXCEPT ![cloud[k].pool].events = @ + 1]
    /\ UNCHANGED <<pc, arg, lock, tick, db, journal, nextId, blacklist,
                   imageCache, now, failures, selVars>>

\* The operator clears the pool's status rows by hand.
OperatorClear(p) ==
    /\ journal[p] # <<>>
    /\ journal' = [journal EXCEPT ![p] = <<>>]
    /\ UNCHANGED <<pc, arg, lock, tick, db, pool, cloud, nextId, blacklist,
                   imageCache, now, failures, selVars>>

\* The operator disables the pool.
OperatorDisable(p) ==
    /\ pool[p].isEnabled
    /\ failures + Events < MaxFaults
    /\ pool' = [pool EXCEPT ![p].isEnabled = FALSE, ![p].events = @ + 1]
    /\ UNCHANGED <<pc, arg, lock, tick, db, journal, cloud, nextId, blacklist,
                   imageCache, now, failures, selVars>>

\* The operator saves a configuration that is cyclic or lacks a parameter.
OperatorBreakConfig(p) ==
    /\ pool[p].valid
    /\ failures + Events < MaxFaults
    /\ pool' = [pool EXCEPT ![p].valid = FALSE, ![p].events = @ + 1]
    /\ UNCHANGED <<pc, arg, lock, tick, db, journal, cloud, nextId, blacklist,
                   imageCache, now, failures, selVars>>

\* The operator lowers max_price of the pool's configuration to one price
\* unit per core.
OperatorLowerCeiling(p) ==
    /\ pool[p].max_price > 1
    /\ failures + Events < MaxFaults
    /\ pool' = [pool EXCEPT ![p].max_price = 1, ![p].events = @ + 1]
    /\ UNCHANGED <<pc, arg, lock, tick, db, journal, cloud, nextId, blacklist,
                   imageCache, now, failures, selVars>>

\* Time passes.
ClockTick ==
    /\ now < MaxTime
    /\ now' = now + 1
    /\ UNCHANGED <<pc, arg, lock, tick, dataVars, failures, selVars>>

\* One invocation at a time (worker w1): the lock is free whenever it is
\* asked for, so the return of lines 25-27 does not occur here.
Next ==
    \/ \E p \in Pools : Acquire("w1", p)
    \/ Body("w1")
    \/ Release("w1")
    \/ \E k \in Ids : CloudFulfil(k)
    \/ \E k \in Ids : CloudReject(k)
    \/ \E k \in Ids : CloudInterrupt(k)
    \/ \E p \in Pools : OperatorClear(p)
    \/ \E p \in Pools : OperatorDisable(p)
    \/ \E p \in Pools : OperatorBreakConfig(p)
    \/ \E p \in Pools : OperatorLowerCeiling(p)
    \/ ClockTick

Spec == Init /\ [][Next]_vars

\* Overlapping invocations (all workers); the cloud fulfils requests and
\* provider calls may raise, nothing else happens around them.
NextLock ==
    \/ \E w \in Workers, p \in Pools : Acquire(w, p)
    \/ \E w \in Workers, p \in Pools : AcquireFails(w, p)
    \/ \E w \in Workers : Return(w)
    \/ \E w \in Workers : Body(w)
    \/ \E w \in Workers : Release(w)
    \/ \E k \in Ids : CloudFulfil(k)

SpecLock == Init /\ [][NextLock]_vars

(***************************************************************************)
(* Selector runs on their own: _determine_best_location and                *)
(* _determine_best_price applied to a config, a price snapshot and a       *)
(* blacklist snapshot drawn from bounded sets.                             *)
(*   selIn = [max_price, regions, instance_types, bl, a1, a2, b1]: a1, a2  *)
(*   are the price lists of type A in zones z1, z2 and b1 the price list   *)
(*   of type B in zone z1; b1 = <<>> says the cache has no price key of B. *)
(***************************************************************************)
PriceLists1 == {<<a>> : a \in 1..MaxPrice}
PriceLists2 == PriceLists1 \cup {<<a, b>> : a \in 1..MaxPrice, b \in 1..MaxPrice}

SelInputs ==
    [max_price : 1..MaxPrice,
     regions : {{"r1"}, {"r1", "r2"}},
     instance_types : {<<"A">>, <<"B">>, <<"A", "B">>, <<"B", "A">>},
     bl : {{}, {<<"z1", "A">>}, {<<"z1", "B">>}},
     a1 : PriceLists2, a2 : PriceLists1, b1 : PriceLists2 \cup {<<>>}]

SelPrices(in) ==
    [A |-> [cached |-> TRUE, data |->
              <<[region |-> "r1", zone |-> "z1", prices |-> in.a1],
                [region |-> "r2", zone |-> "z2", prices |-> in.a2]>>],
     B |-> [cached |-> in.b1 # <<>>, data |->
              IF in.b1 = <<>> THEN <<>>
              ELSE <<[region |-> "r1", zone |-> "z1", prices |-> in.b1]>>]]

InitSel ==
    /\ InitTables
    /\ selIn \in SelInputs
    /\ selOut = [ran |-> FALSE]

\* The orders in which "for region in data" and "for zone in data[region]"
\* (lines 232-236) can visit a price snapshot: the loops follow the order of
\* the decoded JSON object, which the code does not sort.  SelPrices lists
\* the zones in sorted order; the other order is its reverse.
DataOrders(prices) ==
    {prices,
     [t \in DOMAIN prices |->
        [prices[t] EXCEPT !.data =
            [i \in 1..Len(@) |-> @[Len(@) + 1 - i]]]]}

\* One run of each selector on the inputs.
Select ==
    /\ ~selOut.ran
    /\ \E keys \in {<<"A", "B">>, <<"B", "A">>},
          prices \in DataOrders(SelPrices(selIn)) :
         selOut' = [ran |-> TRUE,
                    location |-> _determine_best_location(selIn.max_price,
                                     selIn.regions, selIn.instance_types,
                                     prices, selIn.bl),
                    price |-> _determine_best_price(selIn.max_price,
                                  selIn.regions, selIn.instance_types,
                                  prices, selIn.bl, keys)]
    /\ UNCHANGED <<pc, arg, lock, tick, dataVars, now, failures, selIn>>

NextSel == Select

SpecSel == InitSel /\ [][NextSel]_vars

(***************************************************************************)
(* The scale-down selection on its own: lines 94-106 of check_instance_pool *)
(* applied to a pool size and to the sizes of the pool's kept rows in the  *)
(* order of their creation, both drawn from bounded sets.                  *)
(*   selIn = [size, sizes]; selOut = [ran, missing, instances]             *)
(***************************************************************************)
MaxRows == 3       \* kept rows of the pool
MaxRowCores == 4   \* cores of one row
MaxPoolSize == 4   \* config.size

RECURSIVE SeqsUpTo(_, _)
SeqsUpTo(S, n) ==
    IF n = 0 THEN {<<>>}
    ELSE LET shorter == SeqsUpTo(S, n - 1)
         IN  shorter \cup {Append(q, x) : q \in shorter, x \in S}

DownInputs ==
    [size : 1..MaxPoolSize,
     sizes : SeqsUpTo(1..MaxRowCores, MaxRows) \ {<<>>}]

\* The rows of a scale-down input, keyed by their place in the creation order.
DownRows(in) == [k \in 1..Len(in.sizes) |-> [size |-> in.sizes[k]]]

InitDown ==
    /\ InitTables
    /\ selIn \in DownInputs
    /\ selOut = [ran |-> FALSE]

\* Lines 47-69 and 94-106: the cores missing, then the loop when it is negative.
ScaleDownRun ==
    /\ ~selOut.ran
    /\ LET d == DownRows(selIn)
           missing == selIn.size - SumSizes(d, DOMAIN d)
       IN  selOut' = [ran |-> TRUE, missing |-> missing,
                      instances |->
                         IF missing < 0
                         THEN ScaleDownLoop(d, SeqOf(DOMAIN d), 1, missing, {})
                         ELSE {}]
    /\ UNCHANGED <<pc, arg, lock, tick, dataVars, now, failures, selIn>>

NextDown == ScaleDownRun

SpecDown == InitDown /\ [][NextDown]_vars

(***************************************************************************)
(* The EC2 provider's handling of one instance state word on its own.  The *)
(* cloud holds one fulfilled, tagged instance (that of spot request 0, in  *)
(* pool 2 and region r2) whose state_code is a 16-bit word: a canonical    *)
(* code in the low byte, an opaque value in the high byte.                 *)
(*   selIn = [word, updatable, pool_id, region, known]                     *)
(*   selOut = [ran, requests, state, warns]                                *)
(***************************************************************************)
MaxHighByte == 2   \* high bytes 0..MaxHighByte

StateWords ==
    {c + 256 * h : c \in {0, 16, 32, 48, 64, 80}, h \in 0..MaxHighByte}

WordInputs ==
    [word : StateWords, updatable : BOOLEAN, pool_id : Pools,
     region : Regions, known : BOOLEAN]

\* The cloud with the one instance in state word s.
WordCloud(in, s) ==
    [k \in Ids |->
        IF k = 0
        THEN [InitialInstance EXCEPT !.state = s, !.updatable = in.updatable]
        ELSE NoReq]

\* EC2SpotCloudProvider.terminate_instances, lines 37-46: the consistency
\* test on an instance found by the pool tag; TRUE when the error is logged.
terminate_instances_warns(state_word, known) ==
    ~(known \/ state_word % 256 \in {INSTANCE_STATE.shutting_down,
                                      INSTANCE_STATE.terminated})

\* What the three provider functions make of the instance in state word s.
WordResults(in, s) ==
    [ran |-> TRUE,
     requests |-> check_instances_requests(in.region, <<0>>,
                                           WordCloud(in, s)).successful,
     state |-> check_instances_state(in.pool_id, in.region, WordCloud(in, s)),
     warns |-> terminate_instances_warns(s, in.known)]

InitWord ==
    /\ InitTables
    /\ selIn \in WordInputs
    /\ selOut = [ran |-> FALSE]

WordRun ==
    /\ ~selOut.ran
    /\ selOut' = WordResults(selIn, selIn.word)
    /\ UNCHANGED <<pc, arg, lock, tick, dataVars, now, failures, selIn>>

NextWord == WordRun

SpecWord == InitWord /\ [][NextWord]_vars

(***************************************************************************)
(* The count loop on its own: lines 47-69 of check_instance_pool applied   *)
(* to a pool size and to rows of pool 1 whose size and status_code are     *)
(* drawn from bounded sets (the seven codes of INSTANCE_STATE and one code *)
(* that is none of them).                                                  *)
(*   selIn = [size, rows]; selOut = [ran, missing, db]                     *)
(***************************************************************************)
MaxCountRows == 2   \* rows of the pool in a run of the count loop

StatusCodes ==
    {INSTANCE_STATE[n] : n \in DOMAIN INSTANCE_STATE} \cup {96}

CountInputs ==
    [size : 1..MaxPoolSize,
     rows : SeqsUpTo([pool : {1}, size : {CORES_PER_INSTANCE[t] : t \in Types},
                      status_code : StatusCodes], MaxCountRows)]

InitCount ==
    /\ InitTables
    /\ selIn \in CountInputs
    /\ selOut = [ran |-> FALSE]

\* Lines 47-69 on the rows of the input.
CountRun ==
    /\ ~selOut.ran
    /\ LET W == CountRunning(1, [size |-> selIn.size],
                             [db |-> selIn.rows, missing |-> 0])
       IN  selOut' = [ran |-> TRUE, missing |-> W.missing, db |-> W.db]
    /\ UNCHANGED <<pc, arg, lock, tick, dataVars, now, failures, selIn>>

NextCount == CountRun

SpecCount == InitCount /\ [][NextCount]_vars

(***************************************************************************)
(* The filter of the instance types on its own: lines 130-145 of           *)
(* _start_pool_instances applied to a list of configured types and a       *)
(* number of cores needed, both drawn from bounded sets.                   *)
(*   selIn = [instance_types, count]; selOut = [ran, instance_types]       *)
(***************************************************************************)
MaxTypes == 3   \* configured instance types

WinnowInputs ==
    [instance_types : SeqsUpTo(DOMAIN CORES_PER_INSTANCE, MaxTypes),
     count : 1..MaxPoolSize]

InitWinnow ==
    /\ InitTables
    /\ selIn \in WinnowInputs
    /\ selOut = [ran |-> FALSE]

WinnowRun ==
    /\ ~selOut.ran
    /\ selOut' = [ran |-> TRUE,
                  instance_types |-> Winnow(selIn.instance_types, selIn.count)]
    /\ UNCHANGED <<pc, arg, lock, tick, dataVars, now, failures, selIn>>

NextWinnow == WinnowRun

SpecWinnow == InitWinnow /\ [][NextWinnow]_vars

(***************************************************************************)
(* One tick of pool 1 on given tables: check_instance_pool run on rows and *)
(* cloud instances drawn from bounded sets.  The pks 1..MaxSlots each hold *)
(* nothing, a requested row with its spot request, a running row with its  *)
(* tagged instance (which may lack the Updatable tag), or a tagged         *)
(* instance that has no row.                                               *)
(***************************************************************************)
MaxSlots == 2   \* pks the tables are drawn for

Slots ==
    {[row |-> "none", req |-> "none", state |-> -1, updatable |-> FALSE,
      region |-> None]}
    \cup [row : {"requested"}, req : {"open", "cancelled", "failed"},
          state : {-1}, updatable : {FALSE}, region : Regions]
    \cup [row : {"requested"}, req : {"fulfilled"},
          state : {INSTANCE_STATE.running}, updatable : {FALSE},
          region : Regions]
    \cup [row : {"running"}, req : {"fulfilled"},
          state : {INSTANCE_STATE.running, INSTANCE_STATE.stopping,
                   INSTANCE_STATE.shutting_down},
          updatable : BOOLEAN, region : Regions]
    \cup [row : {"none"}, req : {"fulfilled"},
          state : {INSTANCE_STATE.running}, updatable : BOOLEAN,
          region : Regions]

SlotZone(s) == CHOOSE z \in Zones : ZoneRegion[z] = s.region

SlotRow(k, s) ==
    IF s.row = "none" THEN Null
    ELSE [instance_id |-> IF s.row = "requested" THEN ReqId(k) ELSE InstId(k),
          pool |-> 1, region |-> s.region, zone |-> SlotZone(s),
          status_code |-> IF s.row = "requested"
                          THEN INSTANCE_STATE.requested
                          ELSE INSTANCE_STATE.running,
          size |-> CORES_PER_INSTANCE["A"],
          hostname |-> IF s.row = "requested" THEN Null ELSE <<"dns", k>>]

SlotCloud(k, s) ==
    IF s.req = "none" THEN NoReq
    ELSE [req |-> s.req, state |-> s.state, tagged |-> s.row # "requested",
          updatable |-> s.updatable, pool |-> 1, region |-> s.region,
          zone |-> SlotZone(s), type |-> "A"]

InitInv ==
    /\ pc = [w \in Workers |-> "idle"]
    /\ arg = [w \in Workers |-> 0]
    /\ lock = [p \in Pools |-> None]
    /\ tick = [w \in Workers |-> NoTick]
    /\ \E slots \in [1..MaxSlots -> Slots] :
         /\ db = [k \in Ids |-> IF k \in 1..MaxSlots
                                THEN SlotRow(k, slots[k]) ELSE Null]
         /\ cloud = [k \in Ids |-> IF k \in 1..MaxSlots
                                   THEN SlotCloud(k, slots[k]) ELSE NoReq]
    /\ journal = [p \in Pools |-> <<>>]
    /\ pool = [p \in Pools |->
                 [isEnabled |-> TRUE, last_cycled |-> <<0>>, valid |-> TRUE,
                  events |-> 0, max_price |-> PoolConfig[p].max_price]]
    /\ nextId = MaxSlots + 1
    /\ blacklist = {}
    /\ imageCache = {}
    /\ now = 0
    /\ failures = 0
    /\ selIn = Null
    /\ selOut = Null

NextInv ==
    \/ Acquire("w1", 1)
    \/ Body("w1")
    \/ Release("w1")

SpecInv == InitInv /\ [][NextInv]_vars

(***************************************************************************)
(* EC2SpotCloudProvider.start_instances, lines 94-151: what leaves the     *)
(* method when a statement of the outer try raises.  A failure is          *)
(* [stage, class, markers]: the stage it occurs in ("prepare": lines       *)
(* 95-100, "connect": lines 102-111, "create": lines 120-134), the class   *)
(* of the exception, and which of the two texts the handler of lines       *)
(* 136-148 looks for are in str(msg).  An exception is [type, data] when   *)
(* it is Exception({"type": ..., "data": ...}) and [class, markers] as it  *)
(* was raised otherwise.                                                   *)
(*   selIn = the failure; selOut = [ran, assigned, type]                   *)
(***************************************************************************)
ExceptionClasses == {"SSLError", "EC2ResponseError", "BotoServerError",
                     "socket.error", "KeyError", "UnicodeDecodeError"}

Markers == {"MaxSpotInstanceCountExceeded", "Service Unavailable"}

LaunchFailures ==
    [stage : {"prepare", "connect", "create"}, class : ExceptionClasses,
     markers : SUBSET Markers]

Raw(f) == [type |-> None, class |-> f.class]

\* Lines 112-118: the handlers of the try around connect and image_ids.
ConnectHandlers(f) ==
    IF f.class = "SSLError" THEN [type |-> "temporary-failure", class |-> "Exception"]
    ELSE [type |-> "unclassified", class |-> "Exception"]

\* Lines 136-148: the handler of the try around create_spot_requests.
CreateHandlers(f) ==
    IF f.class \in {"EC2ResponseError", "BotoServerError", "SSLError",
                    "socket.error"}
    THEN IF "MaxSpotInstanceCountExceeded" \in f.markers
         THEN [type |-> "max-spot-instance-count-exceeded", class |-> "Exception"]
         ELSE IF "Service Unavailable" \in f.markers
         THEN [type |-> "temporary-failure", class |-> "Exception"]
         ELSE [type |-> "unclassified", class |-> "Exception"]
    ELSE Raw(f)

\* The exception that reaches the end of the outer try (line 148).
InnerException(f) ==
    CASE f.stage = "connect" -> ConnectHandlers(f)
      [] f.stage = "create" -> CreateHandlers(f)
      [] OTHER -> Raw(f)

\* Lines 149-151: "except Exception as msg" of the outer try; every
\* exception that reaches it, the ones raised at lines 114, 118, 140, 145
\* and 148 included, is an Exception.
OuterHandler(e) == [type |-> "unclassified", class |-> "Exception"]

start_instances_raises(f) == OuterHandler(InnerException(f))

InitLaunch ==
    /\ InitTables
    /\ selIn \in LaunchFailures
    /\ selOut = [ran |-> FALSE]

LaunchFails ==
    /\ ~selOut.ran
    /\ selOut' = [ran |-> TRUE,
                  assigned |-> InnerException(selIn).type,
                  type |-> start_instances_raises(selIn).type]
    /\ UNCHANGED <<pc, arg, lock, tick, dataVars, now, failures, selIn>>

NextLaunch == LaunchFails

SpecLaunch == InitLaunch /\ [][NextLaunch]_vars

(***************************************************************************)
(* Repeated ticks in a quiet world: both pools enabled with valid          *)
(* configurations, cycled at the time the clock shows and the clock        *)
(* standing still (no cycle comes due), no provider call raising, nobody   *)
(* touching the tables, and the cloud fulfilling every spot request.  Pool *)
(* 2 starts with its instance running or with no instance at all.  The     *)
(* scheduler starts check_instance_pool for every pool again and again     *)
(* (strong fairness of Acquire: it is not enabled while another pool's     *)
(* tick runs); a tick that holds the lock runs the body of its try         *)
(* (RunsBody below is the step of Body on pc: Body(w) is enabled in every  *)
(* state with pc[w] = "locked", and no other action of NextLive changes    *)
(* pc[w] there) and then releases the lock; every open request is          *)
(* fulfilled.                                                              *)
(***************************************************************************)
InitLive ==
    /\ pc = [w \in Workers |-> "idle"]
    /\ arg = [w \in Workers |-> 0]
    /\ lock = [p \in Pools |-> None]
    /\ tick = [w \in Workers |-> NoTick]
    /\ \E present \in BOOLEAN :
         /\ db = [k \in Ids |-> IF k = 0 /\ present THEN InitialRow ELSE Null]
         /\ cloud = [k \in Ids |->
                       IF k = 0 /\ present THEN InitialInstance ELSE NoReq]
    /\ journal = InitialJournal
    /\ now \in 0..MaxTime
    /\ pool = [p \in Pools |->
                 [isEnabled |-> TRUE, last_cycled |-> <<now>>, valid |-> TRUE,
                  events |-> 0, max_price |-> PoolConfig[p].max_price]]
    /\ nextId = 1
    /\ blacklist = {}
    /\ imageCache = {}
    /\ failures = MaxFaults
    /\ selIn = Null
    /\ selOut = Null

NextLive ==
    \/ \E p \in Pools : Acquire("w1", p)
    \/ Body("w1")
    \/ Release("w1")
    \/ \E k \in Ids : CloudFulfil(k)

\* The step of Body(w) as pc shows it: from the lock held (line 25) to the
\* finally clause (line 115).
RunsBody(w) == pc[w] = "locked" /\ pc' = [pc EXCEPT ![w] = "finally"]

SpecLive ==
    /\ InitLive /\ [][NextLive]_vars
    /\ \A p \in Pools : SF_vars(Acquire("w1", p))
    /\ WF_pc(RunsBody("w1"))
    /\ WF_vars(Release("w1"))
    /\ \A k \in Ids : WF_vars(CloudFulfil(k))

(***************************************************************************)
(* Properties.                                                             *)
(***************************************************************************)
\* Invocation w is past the lock acquisition for pool p.
Active(w, p) == pc[w] \in {"locked", "finally"} /\ arg[w] = p

\* The step in which invocation w runs the body of the try.
BodyStep(w) == pc[w] = "locked" /\ pc'[w] = "finally"

HasCritical(entries) == \E i \in 1..Len(entries) : entries[i].isCritical

HasType(entries, type) == \E i \in 1..Len(entries) : entries[i].type = type

TransientTypes == {"max-spot-instance-count-exceeded", "temporary-failure"}

\* C1: for every pool p at most one invocation at a time is past the lock
\* acquisition (and it is the one that holds p's lock file), so the bodies of
\* two invocations for p, the only writers of p's rows, never overlap.
C1_LockExclusion ==
    \A p \in Pools :
        \A w \in Workers, v \in Workers :
            Active(w, p) /\ Active(v, p) => w = v /\ lock[p] = w

\* C1 happens: an invocation for p has run its body and started spot
\* requests while another invocation for p was turned away.
C1_Witness ==
    \E w \in Workers, v \in Workers :
        /\ w # v
        /\ pc[w] = "finally" /\ tick[w].started # {}
        /\ pc[v] = "refused" /\ arg[v] = arg[w]

\* C2: an invocation that starts for p while p's lock is held goes straight
\* to its return, and neither that step nor the return changes the lock, a
\* table, the cloud, the cache or anything else; it never turns into an
\* invocation that holds the lock (it is not queued, not retried).
C2_RefusedReturns ==
    [][\A w \in Workers :
          /\ (pc[w] = "idle" /\ pc'[w] # "idle" /\ lock[arg'[w]] # None)
                => /\ pc'[w] = "refused"
                   /\ UNCHANGED <<lock, dataVars, now, failures>>
          /\ (pc[w] = "refused" /\ pc'[w] # "refused")
                => /\ pc'[w] = "idle"
                   /\ UNCHANGED <<lock, dataVars, now, failures>>]_vars

\* C2 happens: an invocation was turned away while the holder of the lock
\* has not yet run its body.
C2_Witness ==
    \E w \in Workers, v \in Workers :
        /\ pc[w] = "refused"
        /\ pc[v] = "locked" /\ arg[v] = arg[w] /\ lock[arg[w]] = v

\* C3: a lock file is held only by an invocation that is still between its
\* acquisition and its finally; once the invocation has ended, however its
\* body ended, the lock is free and the next invocation for the pool gets it.
C3_LockReleased ==
    /\ \A p \in Pools : lock[p] # None => Active(lock[p], p)
    /\ \A w \in Workers :
          pc[w] = "idle" /\ tick[w].outcome # None
             => lock_acquire(tick[w].pool)

\* C3 happens: an invocation whose body raised has ended and the lock of its
\* pool is free.
C3_Witness ==
    \E w \in Workers :
        /\ pc[w] = "idle" /\ tick[w].outcome = "exception"
        /\ lock[tick[w].pool] = None

\* C4: a body that starts while the pool has a critical status row changes
\* no Instance row, no status row, no pool row, nothing in the cloud and no
\* cache key, and makes no provider call (none is counted, none fails).
C4_CriticalHalt ==
    [][\A w \in Workers :
          BodyStep(w) /\ HasCritical(journal[arg[w]])
             => /\ UNCHANGED <<db, journal, pool, cloud, nextId, blacklist,
                               imageCache, failures>>
                /\ tick'[w].termCalls = 0
                /\ tick'[w].started = {}
                /\ tick'[w].terminated = {}]_vars

\* C4 happens: a body returned on the critical row although a fulfilled spot
\* request of its pool was waiting to be taken over.
C4_Witness ==
    \E w \in Workers :
        /\ pc[w] = "finally" /\ tick[w].outcome = "critical"
        /\ \E k \in RowsOf(db, tick[w].pool) :
              /\ db[k].status_code = INSTANCE_STATE.requested
              /\ cloud[k].req = "fulfilled"

\* The cores of pool p's rows in a counted status.
CountedCores(d, p) ==
    SumSizes(d, {k \in RowsOf(d, p) :
                    d[k].status_code \in {INSTANCE_STATE.requested,
                                          INSTANCE_STATE.pending,
                                          INSTANCE_STATE.running}})

\* max_instance_size: the most cores of a configured instance type.
MaxCores(instance_types) ==
    CHOOSE m \in {CORES_PER_INSTANCE[instance_types[i]] :
                     i \in 1..Len(instance_types)} :
        \A i \in 1..Len(instance_types) :
            m >= CORES_PER_INSTANCE[instance_types[i]]

\* C5: after the body of an enabled pool ran to its end with no provider
\* failure and no status row added, the counted cores of the pool lie in
\* config.size .. config.size + max_instance_size - 1.
C5_Capacity ==
    \A w \in Workers :
        (/\ pc[w] = "finally" /\ tick[w].outcome = "done"
         /\ tick[w].before.pool[tick[w].pool].isEnabled
         /\ tick[w].before.failures = failures
         /\ Len(journal[tick[w].pool])
               <= Len(tick[w].before.journal[tick[w].pool]))
        => CountedCores(db, tick[w].pool) \in
              PoolConfig[tick[w].pool].size ..
              (PoolConfig[tick[w].pool].size
                 + MaxCores(PoolConfig[tick[w].pool].instance_types) - 1)

\* The price list of (type, zone) in a selector input; <<>>: no price data.
PricesAt(in, type, zone) ==
    IF type = "A" THEN (IF zone = "z1" THEN in.a1 ELSE in.a2)
    ELSE (IF zone = "z1" THEN in.b1 ELSE <<>>)

\* (type, zone) is an eligible candidate of a selector input.
Eligible(in, type, zone) ==
    /\ \E i \in 1..Len(in.instance_types) : in.instance_types[i] = type
    /\ PricesAt(in, type, zone) # <<>>
    /\ ZoneRegion[zone] \in in.regions
    /\ <<zone, type>> \notin in.bl
    /\ PricesAt(in, type, zone)[1] <= in.max_price * CORES_PER_INSTANCE[type]

\* r is a selector result that names a location.
NamesLocation(r) == r # Null /\ r.best_region # None

\* C6: the location _determine_best_location returns has the least median
\* per-core price of all eligible candidates, of every instance type.
C6_SelectorOptimal ==
    (selOut.ran /\ NamesLocation(selOut.location))
    => \A type \in Types, zone \in Zones :
          Eligible(selIn, type, zone)
             => ~FracGt(selOut.location.best_median,
                        get_price_median(PricesAt(selIn, type, zone),
                                         CORES_PER_INSTANCE[type]))

\* A selector result r respects the ceiling of input in.
UnderCeiling(in, r) ==
    /\ NamesLocation(r)
          => /\ r.best_region = ZoneRegion[r.best_zone]
             /\ PricesAt(in, r.best_type, r.best_zone) # <<>>
             /\ PricesAt(in, r.best_type, r.best_zone)[1]
                   <= in.max_price * CORES_PER_INSTANCE[r.best_type]
    /\ (\A type \in Types, zone \in Zones : ~Eligible(in, type, zone))
          => ~NamesLocation(r)

\* C7: neither selector ever returns a (region, zone, type) whose newest
\* per-core price is above max_price, and with no candidate under the
\* ceiling it names no region.
C7_SelectorCeiling ==
    selOut.ran => /\ UnderCeiling(selIn, selOut.location)
                  /\ UnderCeiling(selIn, selOut.price)

\* C7 happens: the selector named a location after it had passed over a zone
\* above the ceiling.
C7_Witness ==
    /\ selOut.ran
    /\ NamesLocation(selOut.location)
    /\ selOut.location.rejected_prices # <<>>

\* s is a prefix of t.
IsPrefix(s, t) == Len(s) <= Len(t) /\ SubSeq(t, 1, Len(s)) = s

\* C8: in a body that sees a spot request of its pool p fulfilled, p's status
\* rows of the other types stay, in their order, at the head of the table,
\* whatever follows them was added by this body (none of p's former
\* max-spot-instance-count-exceeded or temporary-failure rows is left), and
\* the status rows of every other pool are as they were.
C8_Retraction ==
    [][\A w \in Workers :
          BodyStep(w) /\ tick'[w].created
             => /\ IsPrefix(SelectSeq(journal[arg[w]],
                                      LAMBDA e : e.type \notin TransientTypes),
                            journal'[arg[w]])
                /\ \A i \in 1..Len(journal[arg[w]]),
                      j \in 1..Len(journal'[arg[w]]) :
                      journal[arg[w]][i].type \in TransientTypes
                         => journal'[arg[w]][j] # journal[arg[w]][i]
                /\ \A q \in Pools \ {arg[w]} : journal'[q] = journal[q]]_vars

\* C8 happens: a body saw a request fulfilled when its pool had rows of both
\* retracted types and of another type, and another pool had status rows.
C8_Witness ==
    \E w \in Workers :
        /\ pc[w] = "finally" /\ tick[w].created
        /\ HasType(tick[w].before.journal[tick[w].pool], "temporary-failure")
        /\ HasType(tick[w].before.journal[tick[w].pool],
                   "max-spot-instance-count-exceeded")
        /\ HasType(tick[w].before.journal[tick[w].pool], "price-too-low")
        /\ \E q \in Pools \ {tick[w].pool} : tick[w].before.journal[q] # <<>>

\* C9: every status row of type temporary-failure or
\* max-spot-instance-count-exceeded has isCritical = FALSE.
C9_TransientNotCritical ==
    \A p \in Pools :
        \A i \in 1..Len(journal[p]) :
            journal[p][i].type \in TransientTypes => ~journal[p][i].isCritical

\* C10: a body that finds a max-spot-instance-count-exceeded row, and no
\* critical row of any other type, does not return on the critical-row test:
\* the launch is attempted again without the operator.
C10_RetryAfterQuota ==
    \A w \in Workers :
        (/\ pc[w] = "finally"
         /\ HasType(tick[w].before.journal[tick[w].pool],
                    "max-spot-instance-count-exceeded")
         /\ \A i \in 1..Len(tick[w].before.journal[tick[w].pool]) :
               tick[w].before.journal[tick[w].pool][i].isCritical
                  => tick[w].before.journal[tick[w].pool][i].type
                        = "max-spot-instance-count-exceeded")
        => tick[w].outcome # "critical"

\* The cores of the rows selected before place k of a scale-down run.
SelectedBefore(k) ==
    SumSizes(DownRows(selIn), {j \in selOut.instances : j < k})

\* C11: with delta = missing < 0 the scale-down loop, walking the rows in
\* ascending creation order, selects a row if and only if its size added to
\* the cores already selected does not exceed |delta|; the selected cores
\* are never above |delta| and the cores left are never below config.size.
C11_ScaleDownSelection ==
    (selOut.ran /\ selOut.missing < 0)
    => /\ \A k \in 1..Len(selIn.sizes) :
             k \in selOut.instances
                <=> selIn.sizes[k] + SelectedBefore(k) <= -selOut.missing
       /\ SelectedBefore(Len(selIn.sizes) + 1) <= -selOut.missing
       /\ SumSizes(DownRows(selIn), DOMAIN selIn.sizes)
             - SelectedBefore(Len(selIn.sizes) + 1) >= selIn.size

\* C11 happens: the loop passed over a row that would overshoot and selected
\* a younger one.
C11_Witness ==
    /\ selOut.ran /\ selOut.missing < 0
    /\ \E i \in 1..Len(selIn.sizes), j \in 1..Len(selIn.sizes) :
          i < j /\ i \notin selOut.instances /\ j \in selOut.instances

\* C12: a body that found the pool over capacity and selected rows for the
\* scale-down, with no provider call failing, ends normally having asked the
\* provider to terminate the selected rows, and (when the pool was not
\* cycled in the same body) no other row.
C12_ScaleDownTerminates ==
    \A w \in Workers :
        (/\ pc[w] = "finally"
         /\ tick[w].missing < 0 /\ tick[w].selection # {}
         /\ tick[w].before.failures = failures)
        => /\ tick[w].outcome = "done"
           /\ tick[w].selection \subseteq tick[w].terminated
           /\ ~tick[w].cycled => tick[w].terminated = tick[w].selection

\* The rows of its pool that the body of w kept: the pool's rows less the
\* ones the body itself started.
KeptRows(w) == RowsOf(db, tick[w].pool) \ tick[w].started

\* C13: a body that cycles the pool (last_cycled null or older than
\* cycle_interval) and in which no provider call fails asks the provider to
\* terminate all kept rows, sets last_cycled to the current time and starts
\* no spot request, whatever the pool's deficit was.
C13_CycleNoLaunch ==
    \A w \in Workers :
        (/\ pc[w] = "finally" /\ tick[w].cycled
         /\ tick[w].before.failures = failures)
        => /\ tick[w].termCalls >= 1
           /\ KeptRows(w) \subseteq tick[w].terminated
           /\ pool[tick[w].pool].last_cycled = <<tick[w].before.now>>
           /\ tick[w].started = {}

\* The price-too-low rows among status rows.
PriceTooLowRows(entries) ==
    SelectSeq(entries, LAMBDA e : e.type = "price-too-low")

\* C14: a body that runs for a disabled pool past the critical-row test and
\* the validation asks the provider once to terminate all kept rows when
\* there are any (all of them, when the call does not fail) and makes no
\* such call when there are none, then returns (or, when the provider's
\* terminate call raised an exception that the handler of lines 263-264
\* cannot read, ends with that handler's exception): it starts no spot
\* request, adds no price-too-low row and leaves the pool row, last_cycled
\* included, as it was.
C14_DisabledPool ==
    [][\A w \in Workers :
          (/\ BodyStep(w) /\ ~pool[arg[w]].isEnabled
           /\ ~HasCritical(journal[arg[w]]) /\ pool[arg[w]].valid)
          => /\ tick'[w].outcome =
                   IF /\ tick'[w].fault.call = "terminate"
                      /\ tick'[w].fault.payload = "exception"
                   THEN "exception" ELSE "disabled"
             /\ tick'[w].termCalls = IF RowsOf(db', arg[w]) = {} THEN 0 ELSE 1
             /\ tick'[w].terminated \in {{}, RowsOf(db', arg[w])}
             /\ failures' = failures
                   => tick'[w].terminated = RowsOf(db', arg[w])
             /\ tick'[w].started = {}
             /\ nextId' = nextId
             /\ Len(PriceTooLowRows(journal'[arg[w]]))
                   <= Len(PriceTooLowRows(journal[arg[w]]))
             /\ pool' = pool]_vars

\* C14 happens: the body of a disabled pool whose cycle was due handed the
\* pool's rows to the provider and returned.
C14_Witness ==
    \E w \in Workers :
        /\ pc[w] = "finally" /\ tick[w].outcome = "disabled"
        /\ tick[w].terminated # {}
        /\ CycleDue(pool[tick[w].pool].last_cycled,
                    PoolConfig[tick[w].pool].cycle_interval,
                    tick[w].before.now)

\* (type, zone) qualifies for a launch of pool p under blacklist bl: the
\* cache has a price list for it, the zone's region is allowed, the pair is
\* not blacklisted and the newest per-core price is within max_price.
Qualifies(p, type, zone, bl) ==
    /\ PriceCache[type].cached
    /\ \E i \in 1..Len(PriceCache[type].data) :
          /\ PriceCache[type].data[i].zone = zone
          /\ PriceCache[type].data[i].region \in PoolConfig[p].allowed_regions
          /\ PriceCache[type].data[i].prices[1]
                <= pool[p].max_price * CORES_PER_INSTANCE[type]
    /\ <<zone, type>> \notin bl

\* The body of w ran to its end with a deficit and found no location, of
\* any configured type, that qualifies.
NoLocationTick(w) ==
    /\ pc[w] = "finally" /\ tick[w].outcome = "done" /\ tick[w].missing > 0
    /\ \A i \in 1..Len(PoolConfig[tick[w].pool].instance_types),
          zone \in Zones :
          ~Qualifies(tick[w].pool,
                     PoolConfig[tick[w].pool].instance_types[i], zone,
                     blacklist)

ReportedFulfilled(w, k) ==
    /\ k \in RowsOf(db, arg[w])
    /\ db[k].instance_id = ReqId(k)
    /\ db[k].status_code = INSTANCE_STATE.requested
    /\ cloud[k].req = "fulfilled"
    /\ ~HasCritical(journal[arg[w]]) /\ pool[arg[w]].valid
    /\ \A j \in RowsOf(db, arg[w]) :
          (/\ j < k /\ db[j].region = db[k].region
           /\ db[j].status_code = INSTANCE_STATE.requested)
          => cloud[j].req # "failed"

\* After the step, row k is the record of the cloud instance of request k,
\* with the host name and the status the provider reported in this step.
Rewritten(k) ==
    /\ db'[k] # Null
    /\ db'[k].instance_id = InstId(k)
    /\ db'[k].hostname = <<"dns", k>>
    /\ db'[k].status_code = cloud[k].state % 256
    /\ db'[k].pool = db[k].pool /\ db'[k].zone = db[k].zone

\* After the step, no record holds the id of request k and the cloud
\* instance of k carries the Updatable tag.
RequestIdGone(k) ==
    /\ \A j \in Ids : db'[j] # Null => db'[j].instance_id # ReqId(k)
    /\ cloud'[k].updatable

\* C16, as claimed: a record that is reported fulfilled in a body in which
\* no provider call fails is, after the body, the record of the cloud
\* instance (instance id, reported host name, reported status); it is not
\* deleted, no record with the request id is left and the instance is
\* tagged Updatable.
C16_FulfilledKept ==
    [][\A w \in Workers, k \in Ids :
          (BodyStep(w) /\ ReportedFulfilled(w, k) /\ failures' = failures)
          => Rewritten(k) /\ RequestIdGone(k)]_vars

\* C16, amended: the same, except that a record whose reported status is
\* shutting-down or terminated is deleted by the count loop of the same
\* body (lines 59-65); every other record is kept, rewritten.
C16_FulfilledRewritten ==
    [][\A w \in Workers, k \in Ids :
          (BodyStep(w) /\ ReportedFulfilled(w, k) /\ failures' = failures)
          => /\ RequestIdGone(k)
             /\ IF cloud[k].state % 256 \in {INSTANCE_STATE.shutting_down,
                                              INSTANCE_STATE.terminated}
                THEN db'[k] = Null
                ELSE Rewritten(k)]_vars

\* C16 happens: a body has taken over two fulfilled requests of its pool;
\* one record now holds the running instance, the other, whose instance
\* was already shutting down, is gone.
C16_Witness ==
    \E w \in Workers, k \in Ids, j \in Ids :
        /\ pc[w] = "finally" /\ tick[w].created
        /\ tick[w].before.db[k] # Null /\ tick[w].before.db[j] # Null
        /\ tick[w].before.db[k].instance_id = ReqId(k)
        /\ tick[w].before.db[j].instance_id = ReqId(j)
        /\ db[k] # Null /\ db[k].instance_id = InstId(k)
        /\ db[k].status_code = INSTANCE_STATE.running
        /\ cloud[j].req = "fulfilled" /\ db[j] = Null

\* Row k of the pool of w's body is a spot request that the provider reports
\* cancelled or closed to this body.
ReportedCancelled(w, k) ==
    /\ k \in RowsOf(db, arg[w])
    /\ db[k].instance_id = ReqId(k)
    /\ db[k].status_code = INSTANCE_STATE.requested
    /\ cloud[k].req \in {"cancelled", "closed"}
    /\ ~HasCritical(journal[arg[w]]) /\ pool[arg[w]].valid
    /\ \A j \in RowsOf(db, arg[w]) :
          (/\ j < k /\ db[j].region = db[k].region
           /\ db[j].status_code = INSTANCE_STATE.requested)
          => cloud[j].req # "failed"

\* C17: a body to which a spot request of type t in zone z is reported
\* cancelled or closed sets the blacklist key of (z, t); no key is dropped
\* (the 12 h of its life are longer than the time the model covers); and
\* no body, of any pool, starts a spot request of type t in zone z while
\* the key of (z, t) is set, the body that sets the key included.
C17_BlacklistRespected ==
    [][/\ blacklist \subseteq blacklist'
       /\ \A w \in Workers :
             BodyStep(w)
             => /\ \A k \in Ids :
                      ReportedCancelled(w, k) /\ failures' = failures
                         => <<db[k].zone, cloud[k].type>> \in blacklist'
                /\ \A k \in tick'[w].started :
                      <<db'[k].zone, cloud'[k].type>> \notin blacklist']_vars

\* C17 happens: with a blacklist key set for a zone, the pool has started a
\* spot request of the blacklisted type in another zone.
C17_Witness ==
    \E w \in Workers, k \in Ids, b \in blacklist :
        /\ pc[w] = "finally" /\ k \in tick[w].started
        /\ cloud[k].type = b[2] /\ db[k].zone # b[1]

\* C18: a body that finds the pool's config cyclic or incomplete, and no
\* critical status row, appends one critical config-error row and returns:
\* no provider call, no change of an Instance row, of the pool row, of the
\* cloud or of a cache key.  A body that finds a critical config-error row
\* changes nothing at all, so every later tick is a no-op until the row is
\* cleared by hand.
C18_ConfigError ==
    [][\A w \in Workers :
          BodyStep(w)
          => /\ (~pool[arg[w]].valid /\ ~HasCritical(journal[arg[w]]))
                => /\ tick'[w].outcome = "config-error"
                   /\ journal' = [journal EXCEPT ![arg[w]] =
                          Append(@, [type |-> "config-error",
                                     isCritical |-> TRUE])]
                   /\ UNCHANGED <<db, pool, cloud, nextId, blacklist,
                                  imageCache, failures>>
                   /\ tick'[w].termCalls = 0 /\ tick'[w].started = {}
             /\ (\E i \in 1..Len(journal[arg[w]]) :
                    /\ journal[arg[w]][i].type = "config-error"
                    /\ journal[arg[w]][i].isCritical)
                => /\ tick'[w].outcome = "critical"
                   /\ UNCHANGED dataVars
                   /\ failures' = failures]_vars

\* C18 happens: a later tick of a pool with a config-error row returned on
\* it, although the pool had a cycle due or was below its size.
C18_Witness ==
    \E w \in Workers :
        /\ pc[w] = "finally" /\ tick[w].outcome = "critical"
        /\ ~pool[tick[w].pool].valid
        /\ journal[tick[w].pool] # <<>>
        /\ \A i \in 1..Len(journal[tick[w].pool]) :
              journal[tick[w].pool][i].isCritical
                 => journal[tick[w].pool][i].type = "config-error"
        /\ Len(SelectSeq(journal[tick[w].pool],
                         LAMBDA e : e.type = "config-error")) = 1
        /\ \/ CycleDue(pool[tick[w].pool].last_cycled,
                       PoolConfig[tick[w].pool].cycle_interval,
                       tick[w].before.now)
           \/ CountedCores(db, tick[w].pool) < PoolConfig[tick[w].pool].size

\* The (region, zone, type) of a selector result; Null when it returned None.
Pick(r) ==
    IF r = Null THEN Null
    ELSE <<r.best_region, r.best_zone, r.best_type>>

\* C19: the (region, zone, type) that _determine_best_location returns for
\* a config, a price snapshot and a blacklist snapshot is the one it returns
\* when the snapshot is visited in sorted order: on equal medians the first
\* candidate in sorted order wins, whatever order the map yields its keys
\* in.
C19_SelectorDeterministic ==
    selOut.ran
    => Pick(selOut.location)
          = Pick(_determine_best_location(selIn.max_price, selIn.regions,
                     selIn.instance_types, SelPrices(selIn), selIn.bl))

\* C20: what check_instances_requests, check_instances_state and
\* terminate_instances make of an instance depends only on the low byte of
\* its state word: the results for the word are the results for its low
\* byte alone.
C20_LowByteOnly ==
    selOut.ran => selOut = WordResults(selIn, selIn.word % 256)

\* C21: the deficit the count loop computes is config.size less the sizes
\* of the rows in status requested, pending or running; a row in any other
\* status (stopping, stopped, an unknown code) is not subtracted.
C21_CountedStatuses ==
    selOut.ran
    => selOut.missing = selIn.size - CountedCores(selIn.rows, 1)

\* C22: a body that starts spot requests starts max(1, cores_needed \div
\* cores(chosen_type)) of them, cores_needed being the deficit it counted
\* and chosen_type the type the selector returned for the launch.
C22_InstanceCount ==
    \A w \in Workers :
        (pc[w] = "finally" /\ tick[w].started # {})
        => \A k \in tick[w].started :
              LET n == tick[w].missing \div CORES_PER_INSTANCE[cloud[k].type]
              IN  Cardinality(tick[w].started) = IF n < 1 THEN 1 ELSE n

\* Place i of the configured types of a filter run is offered: its type has
\* at most the cores needed or, when no configured type has, the least
\* cores of all configured types.
Offered(i) ==
    IF \E j \in 1..Len(selIn.instance_types) :
          CORES_PER_INSTANCE[selIn.instance_types[j]] <= selIn.count
    THEN CORES_PER_INSTANCE[selIn.instance_types[i]] <= selIn.count
    ELSE \A j \in 1..Len(selIn.instance_types) :
            CORES_PER_INSTANCE[selIn.instance_types[i]]
               <= CORES_PER_INSTANCE[selIn.instance_types[j]]

\* C23: the types handed to the selector are exactly the offered places of
\* the configured list, in the list's order.
C23_OfferedTypes ==
    selOut.ran
    => /\ Len(selOut.instance_types)
             = Cardinality({i \in 1..Len(selIn.instance_types) : Offered(i)})
       /\ \A i \in 1..Len(selIn.instance_types) :
             Offered(i)
             => selOut.instance_types[
                   Cardinality({j \in 1..i : Offered(j)})]
                = selIn.instance_types[i]

\* C23 happens: no configured type has few enough cores and two types tie
\* for the least; both are offered.
C23_Witness ==
    /\ selOut.ran
    /\ Len(selOut.instance_types) >= 2
    /\ selOut.instance_types[1] # selOut.instance_types[2]
    /\ \A i \in 1..Len(selIn.instance_types) :
          CORES_PER_INSTANCE[selIn.instance_types[i]] > selIn.count
    /\ Len(selOut.instance_types) < Len(selIn.instance_types)

\* The provider reports the instance of row k of the tables B as gone:
\* check_instances_state does not list it, or lists it in shutting-down
\* or terminated.
ReportedGone(B, k) ==
    \/ ~(B.cloud[k].req = "fulfilled" /\ B.cloud[k].tagged)
    \/ B.cloud[k].state % 256 \in {INSTANCE_STATE.shutting_down,
                                    INSTANCE_STATE.terminated}

\* Observing region r failed in the tick of worker w: one of the two
\* provider calls made for r raised.
ObservationFailed(w, r) ==
    tick[w].fault.call \in {"requests", "state"} /\ tick[w].fault.region = r

\* C24: a row the tick deleted either had its spot request come back
\* cancelled or closed (action blacklist), or its region was observed
\* without failure and the provider reported its instance gone; a tick in
\* which observing a region failed deleted no row of that region.
C24_DeleteOnlyObserved ==
    \A w \in Workers :
        pc[w] = "finally"
        => LET B == tick[w].before
           IN  \A k \in RowsOf(B.db, tick[w].pool) :
                  db[k] = Null
                  => \/ /\ B.db[k].status_code = INSTANCE_STATE.requested
                        /\ B.cloud[k].req \in {"cancelled", "closed"}
                     \/ /\ ~ObservationFailed(w, B.db[k].region)
                        /\ ReportedGone(B, k)

\* In the tick of worker w the provider listed the instance of row k:
\* check_instances_state was called for the row's region (no provider call
\* for the region raised, and line 361 did not raise before the call) and
\* its result holds the instance.
StateListed(w, k) ==
    LET B == tick[w].before
        r == B.db[k].region
    IN  /\ ~ObservationFailed(w, r)
        /\ ~\E j \in RowsOf(B.db, tick[w].pool) :
               /\ B.db[j].region = r
               /\ B.db[j].status_code = INSTANCE_STATE.requested
               /\ B.cloud[j].req = "failed"
        /\ B.db[k].instance_id = InstId(k)
        /\ B.cloud[k].req = "fulfilled" /\ B.cloud[k].tagged
        /\ B.cloud[k].state \notin {INSTANCE_STATE.shutting_down,
                                    INSTANCE_STATE.terminated}

\* The tables B hold an instance tagged for pool p that is updatable, not
\* shutting down or terminated, and has no row.
UnknownInstance(B, p, k) ==
    /\ B.cloud[k].req = "fulfilled" /\ B.cloud[k].tagged
    /\ B.cloud[k].updatable /\ B.cloud[k].pool = p
    /\ B.cloud[k].state \notin {INSTANCE_STATE.shutting_down,
                                INSTANCE_STATE.terminated}
    /\ ~\E j \in DOMAIN B.db :
           B.db[j] # Null /\ B.db[j].instance_id = InstId(k)

\* The status rows the tick of worker w appended to its pool: the kinds of
\* row the pool has now and had not before (the update may have deleted
\* rows in between, so places do not tell).  A tick that gets past line 34
\* found no critical row, so every critical row it saves is among them.
Appended(w) ==
    LET old == tick[w].before.journal[tick[w].pool]
        new == journal[tick[w].pool]
    IN  {new[i] : i \in 1..Len(new)} \ {old[i] : i \in 1..Len(old)}

\* C25: a row whose instance the provider listed without the Updatable tag
\* is after the tick what it was before it (not deleted, status unchanged),
\* and a tick in which nothing else goes wrong (no provider call raises, no
\* request has failed, no listed instance lacks a row) appends no
\* unclassified status row.
C25_NotUpdatableUntouched ==
    \A w \in Workers :
        pc[w] = "finally" /\ tick[w].outcome # "critical"
        => LET B == tick[w].before
               p == tick[w].pool
           IN  /\ \A k \in RowsOf(B.db, p) :
                     (StateListed(w, k) /\ ~B.cloud[k].updatable)
                     => db[k] = B.db[k]
               /\ (/\ \E k \in RowsOf(B.db, p) :
                         StateListed(w, k) /\ ~B.cloud[k].updatable
                   /\ tick[w].fault = NoFail
                   /\ \A k \in DOMAIN B.cloud :
                         B.cloud[k].req # "failed" /\ ~UnknownInstance(B, p, k))
                  => \A e \in Appended(w) : e.type # "unclassified"

\* Row k of the tables B is a requested row whose spot request is still
\* open or active.
StillOpen(B, k) ==
    /\ B.db[k].status_code = INSTANCE_STATE.requested
    /\ B.cloud[k].req \in {"open", "active"}

\* C26: a requested row whose spot request is still open or active is after
\* the tick what it was before it: same request id, status requested, not
\* deleted.
C26_OpenRequestKept ==
    \A w \in Workers :
        pc[w] = "finally"
        => \A k \in RowsOf(tick[w].before.db, tick[w].pool) :
              StillOpen(tick[w].before, k)
              => /\ db[k] = tick[w].before.db[k]
                 /\ db[k].instance_id = ReqId(k)
                 /\ db[k].status_code = INSTANCE_STATE.requested

\* C26 happens: the inventory update ran over a pool with two requested
\* rows in one batch, one request fulfilled and one still open; the
\* fulfilled row was rewritten and the open one is as it was.
C26_Witness ==
    /\ pc["w1"] = "finally"
    /\ \E k, j \in RowsOf(tick["w1"].before.db, tick["w1"].pool) :
          /\ StillOpen(tick["w1"].before, k)
          /\ db[k] = tick["w1"].before.db[k]
          /\ tick["w1"].before.db[j].status_code = INSTANCE_STATE.requested
          /\ tick["w1"].before.db[j].region = db[k].region
          /\ db[j] # Null
          /\ db[j].instance_id = InstId(j)

\* Row k of the tables B is a requested row whose spot request has failed.
RequestFailed(B, k) ==
    /\ B.db[k].status_code = INSTANCE_STATE.requested
    /\ B.cloud[k].req = "failed"

\* Row j comes after row k in the batch of requests the tick polled for
\* k's region.
LaterInBatch(B, k, j) ==
    /\ j > k
    /\ B.db[j].pool = B.db[k].pool /\ B.db[j].region = B.db[k].region
    /\ B.db[j].status_code = INSTANCE_STATE.requested

\* C27: a body whose inventory update polls a spot request in state failed
\* appends a critical unclassified status row for the pool, so that the
\* pool then has a critical row (and later bodies return at once, C4); the
\* rows after the failed request in its batch are what they were, whatever
\* became of their requests.  FailedRequestDisables(w) says so of the state
\* in which the body of worker w has just ended.
FailedRequestDisables(w) ==
        (pc[w] = "finally" /\ tick[w].outcome \notin {"critical", "config-error"})
        => \A k \in RowsOf(tick[w].before.db, tick[w].pool) :
              RequestFailed(tick[w].before, k)
              => /\ \E e \in Appended(w) :
                       e.type = "unclassified" /\ e.isCritical
                 /\ criticalPoolStatusEntries(journal[tick[w].pool]) # <<>>
                 /\ \A j \in RowsOf(tick[w].before.db, tick[w].pool) :
                       LaterInBatch(tick[w].before, k, j)
                       => db[j] = tick[w].before.db[j]

C27_FailedRequestDisables ==
    [][\A w \in Workers : BodyStep(w) => FailedRequestDisables(w)']_vars

\* C27 happens: the first request of a batch had failed and the second was
\* fulfilled; the tick appended the critical row and left the second row a
\* requested row.
C27_Witness ==
    /\ pc["w1"] = "finally"
    /\ tick["w1"].outcome \notin {"critical", "config-error"}
    /\ \E k, j \in RowsOf(tick["w1"].before.db, tick["w1"].pool) :
          /\ RequestFailed(tick["w1"].before, k)
          /\ LaterInBatch(tick["w1"].before, k, j)
          /\ tick["w1"].before.cloud[j].req = "fulfilled"
          /\ db[j] = tick["w1"].before.db[j]
          /\ \E e \in Appended("w1") : e.type = "unclassified" /\ e.isCritical

\* In the tick of worker w the inventory update called check_instances_state
\* for region r: the pool has a row in r, no provider call for r raised and
\* line 361 did not raise before the call.
RegionListed(w, r) ==
    LET B == tick[w].before
        rows == {j \in RowsOf(B.db, tick[w].pool) : B.db[j].region = r}
    IN  /\ rows # {}
        /\ ~ObservationFailed(w, r)
        /\ ~\E j \in rows : RequestFailed(B, j)

\* Region r2 comes after region r1 in the loop of line 324 over the rows of
\* pool p in the tables B.
LaterRegion(B, p, r1, r2) ==
    /\ r1 # r2
    /\ \E j \in RowsOf(B.db, p) :
          /\ B.db[j].region = r1
          /\ \A i \in RowsOf(B.db, p) : B.db[i].region = r2 => j < i

\* C28: a tick whose inventory update is handed an updatable instance of
\* the pool that is not shutting down or terminated and has no row halts
\* there: it starts no instance, hands no row to terminate_instances, and
\* the rows of the regions that come later in the loop are what they were.
C28_UnknownInstanceHalts ==
    \A w \in Workers :
        (pc[w] = "finally" /\ tick[w].outcome \notin {"critical", "config-error"})
        => LET B == tick[w].before
               p == tick[w].pool
           IN  \A k \in DOMAIN B.cloud :
                  (UnknownInstance(B, p, k) /\ RegionListed(w, B.cloud[k].region))
                  => /\ tick[w].started = {}
                     /\ tick[w].terminated = {}
                     /\ tick[w].termCalls = 0
                     /\ \A j \in RowsOf(B.db, p) :
                           LaterRegion(B, p, B.cloud[k].region, B.db[j].region)
                           => db[j] = B.db[j]

\* Row j of the tables B is a requested row whose spot request is fulfilled
\* and whose batch holds no failed request.
AwaitsTakeOver(B, j) ==
    /\ B.db[j].status_code = INSTANCE_STATE.requested
    /\ B.cloud[j].req = "fulfilled"
    /\ ~\E i \in RowsOf(B.db, B.db[j].pool) :
           B.db[i].region = B.db[j].region /\ RequestFailed(B, i)

\* C29: a tick in which a provider call of the inventory update raised for
\* one region saved a status row for the pool and still observed the
\* regions that come later in the loop: a fulfilled request waiting there
\* was taken over (its row now carries the instance id).
C29_RegionFailureContained ==
    \A w \in Workers :
        pc[w] = "finally"
        => \A r \in Regions :
              ObservationFailed(w, r)
              => /\ \E e \in Appended(w) : e.type = "unclassified"
                 /\ \A j \in RowsOf(tick[w].before.db, tick[w].pool) :
                       (/\ LaterRegion(tick[w].before, tick[w].pool, r,
                                       tick[w].before.db[j].region)
                        /\ AwaitsTakeOver(tick[w].before, j))
                       => /\ db[j] # Null
                          /\ db[j].instance_id = InstId(j)

\* C29 happens: the provider call raised for the first region of the loop
\* while a fulfilled request waited in the second; the status row was saved
\* and the request taken over.
C29_Witness ==
    /\ pc["w1"] = "finally"
    /\ \E r \in Regions :
          /\ ObservationFailed("w1", r)
          /\ \E e \in Appended("w1") : e.type = "unclassified"
          /\ \E j \in RowsOf(tick["w1"].before.db, tick["w1"].pool) :
                /\ LaterRegion(tick["w1"].before, tick["w1"].pool, r,
                               tick["w1"].before.db[j].region)
                /\ AwaitsTakeOver(tick["w1"].before, j)
                /\ db[j] # Null
                /\ db[j].instance_id = InstId(j)

\* The body of worker w has just ended and _setup_userdata had raised in
\* it: the pool then has a new critical unclassified status row, no spot
\* request was started and the pool has no row it had not before.
UserdataFailureRecorded(w) ==
    (pc[w] = "finally" /\ tick[w].fault.call = "userdata")
    => /\ \E e \in Appended(w) : e.type = "unclassified" /\ e.isCritical
       /\ tick[w].started = {}
       /\ RowsOf(db, tick[w].pool) \subseteq
             RowsOf(tick[w].before.db, tick[w].pool)

\* C30: a body in whose scale-up the compilation of the user data fails
\* saves a critical unclassified status row for the pool, starts no
\* instance and creates no Instance row.
C30_UserdataFailure ==
    [][\A w \in Workers : BodyStep(w) => UserdataFailureRecorded(w)']_vars

\* C31: when a handler of start_instances has given the failure a type
\* (lines 114, 118, 140, 145, 148), that is the type of the exception that
\* leaves start_instances.
C31_TypeAssignedReachesCaller ==
    (selOut.ran /\ selOut.assigned # None) => selOut.type = selOut.assigned

\* The body of worker w has just ended and get_image or start_instances
\* had raised a categorized failure in it: the pool has one new status row,
\* of the failure's category; no spot request was started and the pool has
\* no row it had not before; the body ended without an exception.
LaunchFailureRecorded(w) ==
    (pc[w] = "finally" /\ tick[w].fault.call \in {"image", "start"})
    => /\ Cardinality(Appended(w)) = 1
       /\ \A e \in Appended(w) : e.type = tick[w].fault.type
       /\ tick[w].started = {}
       /\ RowsOf(db, tick[w].pool) \subseteq
             RowsOf(tick[w].before.db, tick[w].pool)
       /\ tick[w].outcome = "done"

\* C32: a body in whose scale-up get_image or start_instances raises a
\* categorized failure saves one status row of that category, creates no
\* Instance row and ends normally.
C32_LaunchFailureRecorded ==
    [][\A w \in Workers : BodyStep(w) => LaunchFailureRecorded(w)']_vars

\* C33: get_image is called for a region only in a body that found no
\* image key set for it, and a body that called it for a region and was
\* handed an image has set the key.
C33_ImageCached ==
    \A w \in Workers :
        pc[w] = "finally"
        => \A r \in tick[w].imageCalls :
              /\ r \notin tick[w].before.imageCache
              /\ tick[w].fault.call # "image" => r \in imageCache

\* Row k of the tables B is a requested row whose spot request was
\* cancelled or closed, and the tick of worker w polled it: the call for
\* its region did not raise and no failed request stood before it in the
\* batch.
PolledCancelled(w, B, k) ==
    /\ B.db[k].status_code = INSTANCE_STATE.requested
    /\ B.cloud[k].req \in {"cancelled", "closed"}
    /\ ~(tick[w].fault.call = "requests"
         /\ tick[w].fault.region = B.db[k].region)
    /\ ~\E j \in RowsOf(B.db, tick[w].pool) :
           j < k /\ B.db[j].region = B.db[k].region /\ RequestFailed(B, j)

\* The body of worker w has just ended: for every request it polled cancelled
\* or closed the key of the row's zone and the request's instance type is
\* set and the row is gone; and when nothing else went wrong in the body
\* (no provider call raised, no request had failed) the only status rows it
\* saved are those of its own launch attempt.
BlacklistApplied(w) ==
    (pc[w] = "finally" /\ tick[w].outcome \notin {"critical", "config-error"})
    => LET B == tick[w].before
       IN  \A k \in RowsOf(B.db, tick[w].pool) :
              PolledCancelled(w, B, k)
              => /\ <<B.db[k].zone, B.cloud[k].type>> \in blacklist
                 /\ db[k] = Null
                 /\ (/\ tick[w].fault = NoFail
                     /\ \A j \in RowsOf(B.db, tick[w].pool) :
                           ~RequestFailed(B, j)
                     /\ \A j \in Ids : ~UnknownInstance(B, tick[w].pool, j))
                    => \A e \in Appended(w) :
                          e.type \in {"price-too-low",
                                      "max-spot-instance-count-exceeded"}

\* C34: a spot request that comes back cancelled or closed (action
\* blacklist) has the key <provider>:blacklist:<zone>:<instance_type> set,
\* with the zone of the row and the type the provider reports, and its row
\* deleted; the inventory update saves no status row for it.
C34_BlacklistApplied ==
    [][\A w \in Workers : BodyStep(w) => BlacklistApplied(w)']_vars

\* C34 happens: a body polled a cancelled request whose key was not set; the
\* key is set now and the row is gone.
C34_Witness ==
    /\ pc["w1"] = "finally"
    /\ \E k \in RowsOf(tick["w1"].before.db, tick["w1"].pool) :
          /\ PolledCancelled("w1", tick["w1"].before, k)
          /\ <<tick["w1"].before.db[k].zone, tick["w1"].before.cloud[k].type>>
                \notin tick["w1"].before.blacklist
          /\ <<tick["w1"].before.db[k].zone, tick["w1"].before.cloud[k].type>>
                \in blacklist
          /\ db[k] = Null

\* C35: the body of check_instance_pool(p) leaves every Instance row of
\* another pool as it is, creates no row for another pool, and leaves the
\* status rows and last_cycled of every other pool as they are, whatever
\* other invocations are under way.
C35_OtherPoolsUntouched ==
    [][\A w \in Workers :
          BodyStep(w)
          => /\ \A k \in DOMAIN db :
                   /\ (db[k] # Null /\ db[k].pool # arg[w]) => db'[k] = db[k]
                   /\ (db[k] = Null /\ db'[k] # Null) => db'[k].pool = arg[w]
             /\ \A q \in Pools \ {arg[w]} :
                   /\ journal'[q] = journal[q]
                   /\ pool'[q].last_cycled = pool[q].last_cycled]_vars

\* C35 happens: the body for pool 1 started spot requests and saved rows
\* while an invocation for pool 2 held that pool's lock, and pool 2's row
\* and status rows are there.
C35_Witness ==
    /\ pc["w1"] = "finally" /\ tick["w1"].pool = 1
    /\ tick["w1"].started # {}
    /\ pc["w2"] = "locked" /\ arg["w2"] = 2
    /\ db[0] # Null /\ db[0].pool = 2
    /\ journal[2] # <<>>

\* Pool p is settled: its counted cores are at least config.size, and a
\* body that has just ended for it started no spot request and handed no
\* row to terminate_instances.
Settled(p) ==
    /\ CountedCores(db, p) >= PoolConfig[p].size
    /\ \A w \in Workers :
          (pc[w] = "finally" /\ tick[w].pool = p)
          => /\ tick[w].started = {}
             /\ tick[w].terminated = {}
             /\ tick[w].termCalls = 0

\* C36: in the quiet world every pool is settled from some tick on, for
\* ever.
C36_Converges == \A p \in Pools : <>[]Settled(p)

\* C36 happens: pool 1 had started spot requests, they were fulfilled and
\* taken over, and a later body for pool 1 neither started nor terminated
\* anything.
C36_Witness ==
    /\ pc["w1"] = "finally" /\ tick["w1"].pool = 1
    /\ tick["w1"].started = {} /\ tick["w1"].terminated = {}
    /\ \E k \in RowsOf(tick["w1"].before.db, 1) :
          tick["w1"].before.db[k].instance_id = InstId(k)
    /\ Settled(1)

====
